---- MODULE Spec2Model ----
(***************************************************************************)
(* A model of package sheriff (sheriff.go): Marshal, marshalValue and the   *)
(* default field filter, applied to Go values described by their kind,     *)
(* their struct fields and the tags of those fields.                       *)
(*                                                                         *)
(* Representation.                                                         *)
(*  - A Go value (a reflect.Value) is a record with a field kind; the      *)
(*    other fields depend on the kind.  Every valid value carries hook     *)
(*    (the Marshaller implementation of its type, "none" when the type     *)
(*    has none) and text (TRUE when the type implements json.Marshaler,    *)
(*    encoding.TextMarshaler or fmt.Stringer).                             *)
(*  - A tag string that is split on commas (json, groups) is the sequence  *)
(*    of its tokens, a token being either the separator "," or a maximal   *)
(*    comma-free run of characters; the empty string is <<>>.              *)
(*  - A version string (since, until) is the sequence of its dot-separated *)
(*    segments, a segment that is not a number being BadSeg; the empty     *)
(*    string is <<>>.                                                      *)
(***************************************************************************)
EXTENDS Integers, Sequences, FiniteSets, TLC

VARIABLES opts, data, result, log, heap, calls

vars == <<opts, data, result, log, heap, calls>>

(***************************************************************************)
(* Bounds of the model.                                                    *)
(***************************************************************************)
MaxVersion == 3

MaxSliceLen == 2

(***************************************************************************)
(* Strings.                                                                *)
(***************************************************************************)
Comma == ","

BadSeg == 0 - 1

\* strings.Index(s, ","): the position of the first separator, 0 when none
\* (Go: -1), positions counted from 1.
RECURSIVE IndexFrom(_, _)
IndexFrom(s, i) ==
  IF i > Len(s) THEN 0
  ELSE IF s[i] = Comma THEN i
  ELSE IndexFrom(s, i + 1)

Index(s) == IndexFrom(s, 1)

\* The Go string spelled by a comma-free token sequence.
Word(s) == IF s = <<>> THEN "" ELSE s[1]

\* strings.Split(s, ","): never empty, Split("") is [""].
RECURSIVE Split(_)
Split(s) ==
  LET i == Index(s)
  IN IF i = 0 THEN <<Word(s)>>
     ELSE <<Word(SubSeq(s, 1, i - 1))>> \o Split(SubSeq(s, i + 1, Len(s)))

\* parseTag of encoding/json as copied into the package: the name before the
\* first comma and the raw options after it.
parseTag(tag) ==
  LET idx == Index(tag)
  IN IF idx # 0
     THEN [name |-> Word(SubSeq(tag, 1, idx - 1)),
           opts |-> SubSeq(tag, idx + 1, Len(tag))]
     ELSE [name |-> Word(tag), opts |-> <<>>]

\* tagOptions.Contains: whether the comma-separated options hold optionName.
RECURSIVE Contains(_, _)
Contains(o, optionName) ==
  IF Len(o) = 0 THEN FALSE
  ELSE LET i == Index(o)
           s == IF i # 0 THEN SubSeq(o, 1, i - 1) ELSE o
           next == IF i # 0 THEN SubSeq(o, i + 1, Len(o)) ELSE <<>>
       IN IF Word(s) = optionName THEN TRUE ELSE Contains(next, optionName)

\* contains: key is one of the strings of list.
contains(key, list) == \E i \in 1..Len(list) : key = list[i]

\* listContains requiring every string of a to be contained in b.
listContainsAll(a, b) == \A i \in 1..Len(a) : contains(a[i], b)

\* listContains: one of the strings of a is contained in b.
listContains(a, b) == \E i \in 1..Len(a) : contains(a[i], b)

(***************************************************************************)
(* Versions (github.com/hashicorp/go-version).                             *)
(***************************************************************************)
NilVersion == [nil |-> TRUE, seg |-> <<0, 0, 0>>]

Version(a, b, c) == [nil |-> FALSE, seg |-> <<a, b, c>>]

\* version.NewVersion: fails on a malformed string, otherwise the segments
\* padded with zeros to three.
NewVersion(s) ==
  IF Len(s) = 0 \/ Len(s) > 3 \/ \E i \in 1..Len(s) : s[i] < 0
  THEN [ok |-> FALSE, v |-> NilVersion]
  ELSE [ok |-> TRUE,
        v |-> [nil |-> FALSE,
               seg |-> [i \in 1..3 |-> IF i <= Len(s) THEN s[i] ELSE 0]]]

\* Version.Compare on two non-nil versions: -1, 0 or 1, segment by segment.
Compare(a, b) ==
  IF a.seg = b.seg THEN 0
  ELSE LET d == CHOOSE i \in 1..3 :
                  /\ a.seg[i] # b.seg[i]
                  /\ \A j \in 1..(i - 1) : a.seg[j] = b.seg[j]
       IN IF a.seg[d] < b.seg[d] THEN 0 - 1 ELSE 1

LessThan(a, b) == Compare(a, b) < 0

GreaterThan(a, b) == Compare(a, b) > 0

(***************************************************************************)
(* Go values.                                                              *)
(***************************************************************************)
\* The zero reflect.Value / the nil interface{}.
NilValue == [kind |-> "invalid"]

GoStr(s) == [kind |-> "string", s |-> s, hook |-> "none", text |-> FALSE]

GoInt(n) == [kind |-> "int", n |-> n, hook |-> "none", text |-> FALSE]

GoBool(b) == [kind |-> "bool", b |-> b, hook |-> "none", text |-> FALSE]

Ptr(x) == [kind |-> "ptr", nil |-> FALSE, elem |-> x,
           hook |-> "none", text |-> FALSE]

NilPtr == [kind |-> "ptr", nil |-> TRUE, hook |-> "none", text |-> FALSE]

Slice(typ, elems) == [kind |-> "slice", typ |-> typ, nil |-> FALSE,
                      elems |-> elems, hook |-> "none", text |-> FALSE]

NilSlice(typ) == [kind |-> "slice", typ |-> typ, nil |-> TRUE,
                  elems |-> <<>>, hook |-> "none", text |-> FALSE]

\* A fixed-length array value (reflect.Array): it has no nil.
Array(typ, elems) == [kind |-> "array", typ |-> typ, elems |-> elems,
                      hook |-> "none", text |-> FALSE]

\* A map value: keyKind is the kind of its keys, m the function from the
\* keys to the values.
Map(typ, keyKind, m) == [kind |-> "map", typ |-> typ, nil |-> FALSE,
                         keyKind |-> keyKind, m |-> m,
                         hook |-> "none", text |-> FALSE]

NilMap(typ, keyKind) == [kind |-> "map", typ |-> typ, nil |-> TRUE,
                         keyKind |-> keyKind, m |-> <<>>,
                         hook |-> "none", text |-> FALSE]

\* A reflect.Value of kind Interface (a field, element or map value whose
\* static type is an interface type) holding the dynamic value x.
Iface(x) == [kind |-> "interface", nil |-> FALSE, dyn |-> x]

NilIface == [kind |-> "interface", nil |-> TRUE]

Struct(typ, fields) == [kind |-> "struct", typ |-> typ, fields |-> fields,
                        hook |-> "none", text |-> FALSE]

WithHook(v, h) == [v EXCEPT !.hook = h]

WithText(v) == [v EXCEPT !.text = TRUE]

\* The types of the values Marshal and marshalValue build.
DynMapType == "map[string]interface{}"

DynSliceType == "[]interface{}"

\* v.Interface(): the dynamic value held by v.
Interface(v) ==
  IF v.kind = "interface" THEN (IF v.nil THEN NilValue ELSE v.dyn) ELSE v

\* v.Elem() of a pointer: the zero Value for a nil pointer.
Elem(v) == IF v.nil THEN NilValue ELSE v.elem

\* v.IsNil() for the kinds that have a nil.
IsNil(v) == v.kind \in {"interface", "map", "ptr", "slice"} /\ v.nil

\* isEmptyValue of encoding/json as copied into the package.
isEmptyValue(v) ==
  CASE v.kind \in {"array", "slice"} -> Len(v.elems) = 0
    [] v.kind = "map" -> DOMAIN v.m = {}
    [] v.kind = "string" -> v.s = ""
    [] v.kind = "bool" -> ~v.b
    [] v.kind = "int" -> v.n = 0
    [] v.kind \in {"interface", "ptr"} -> v.nil
    [] OTHER -> FALSE

(***************************************************************************)
(* Struct fields (reflect.StructField together with the field's value).    *)
(*   Name, Exported, Anonymous : as in reflect.StructField                 *)
(*   json, groups              : the tags split on commas, as tokens       *)
(*   since, until              : the version tags, as segments             *)
(*   hidden                    : a tag read by a caller's own filter       *)
(*   TypeKind                  : field.Type.Kind()                         *)
(*   val                       : v.Field(i)                                *)
(***************************************************************************)
Field(name, json, groups, since, until, val) ==
  [Name |-> name, Exported |-> TRUE, Anonymous |-> FALSE,
   json |-> json, groups |-> groups, since |-> since, until |-> until,
   hidden |-> FALSE, TypeKind |-> val.kind, val |-> val]

\* An embedded (anonymous) field; its name is the name of its type.
Embedded(name, json, groups, val) ==
  [Name |-> name, Exported |-> TRUE, Anonymous |-> TRUE,
   json |-> json, groups |-> groups, since |-> <<>>, until |-> <<>>,
   hidden |-> FALSE, TypeKind |-> val.kind, val |-> val]

Private(f) == [f EXCEPT !.Exported = FALSE]

Hidden(f) == [f EXCEPT !.hidden = TRUE]

\* The names of the fields of the static type of f (tt.Field(i).Name), which
\* line 143 reads only for a field whose type is a struct.
TypeFieldNames(f) == [i \in 1..Len(f.val.fields) |-> f.val.fields[i].Name]

(***************************************************************************)
(* Options.                                                                *)
(***************************************************************************)
NilFilter == [kind |-> "nil", checkGroups |-> FALSE, id |-> "none"]

\* The default filter with the group check always on.
createDefaultFieldFilterAlways(o) ==
  [kind |-> "default", checkGroups |-> TRUE, id |-> "none"]

\* The closure createDefaultFieldFilter returns: checkGroups is computed when
\* the closure is created, the rest of the options is read through the
\* pointer at each call.
createDefaultFieldFilter(o) ==
  [kind |-> "default", checkGroups |-> Len(o.Groups) > 0, id |-> "none"]

CustomFilter(id) == [kind |-> "custom", checkGroups |-> FALSE, id |-> id]

NilGroupsMap == [nil |-> TRUE, m |-> <<>>]

MakeOptions(ff, groups, ver, iet) ==
  [FieldFilter |-> ff, Groups |-> groups, ApiVersion |-> ver,
   IncludeEmptyTag |-> iet, nestedGroupsMap |-> NilGroupsMap]

\* Results of a filter call: include is the boolean, status "ok", "err"
\* (a non-nil error) or "panic" (the call does not return).
FRet(include, status, err) ==
  [include |-> include, status |-> status, err |-> err]

ErrMalformedVersion == "Malformed version"

ErrNilDeref == "invalid memory address or nil pointer dereference"

ErrFilter == "filter error"

ErrHook == "hook error"

\* The until bound with a bound that does not parse hiding the field.
UntilCheckLenient(o, field) ==
  IF field.until # <<>>
  THEN LET p == NewVersion(field.until)
       IN IF ~p.ok THEN FRet(FALSE, "ok", "nil")
          ELSE IF o.ApiVersion.nil THEN FRet(FALSE, "panic", ErrNilDeref)
          ELSE IF GreaterThan(o.ApiVersion, p.v) THEN FRet(FALSE, "ok", "nil")
          ELSE FRet(TRUE, "ok", "nil")
  ELSE FRet(TRUE, "ok", "nil")

\* Lines 233-244 of the default filter: the until bound.
UntilCheck(o, field) ==
  IF field.until # <<>>
  THEN LET p == NewVersion(field.until)
       IN IF ~p.ok THEN FRet(TRUE, "err", ErrMalformedVersion)
          ELSE IF o.ApiVersion.nil THEN FRet(FALSE, "panic", ErrNilDeref)
          ELSE IF GreaterThan(o.ApiVersion, p.v) THEN FRet(FALSE, "ok", "nil")
          ELSE FRet(TRUE, "ok", "nil")
  ELSE FRet(TRUE, "ok", "nil")

\* The since bound taken as exclusive: a version equal to it is skipped.
SinceCheckExclusive(o, field) ==
  IF field.since # <<>>
  THEN LET p == NewVersion(field.since)
       IN IF ~p.ok THEN FRet(TRUE, "err", ErrMalformedVersion)
          ELSE IF o.ApiVersion.nil THEN FRet(FALSE, "panic", ErrNilDeref)
          ELSE IF ~GreaterThan(o.ApiVersion, p.v) THEN FRet(FALSE, "ok", "nil")
          ELSE UntilCheck(o, field)
  ELSE UntilCheck(o, field)

\* Lines 222-231 of the default filter: the since bound, then the until one.
SinceCheck(o, field) ==
  IF field.since # <<>>
  THEN LET p == NewVersion(field.since)
       IN IF ~p.ok THEN FRet(TRUE, "err", ErrMalformedVersion)
          ELSE IF o.ApiVersion.nil THEN FRet(FALSE, "panic", ErrNilDeref)
          ELSE IF LessThan(o.ApiVersion, p.v) THEN FRet(FALSE, "ok", "nil")
          ELSE UntilCheck(o, field)
  ELSE UntilCheck(o, field)

\* Lines 195-202: the groups of the field, its own or the inherited ones.
ResolveGroups(o, field) ==
  LET groups == IF field.groups # <<>> THEN Split(field.groups) ELSE <<>>
  IN IF Len(groups) = 0 /\ field.Name \in DOMAIN o.nestedGroupsMap.m
     THEN o.nestedGroupsMap.m[field.Name]
     ELSE groups

\* The group rule without the IncludeEmptyTag option.
ShouldHideUntagged(o, field) ==
  ~listContains(ResolveGroups(o, field), o.Groups)

\* Lines 204-214: whether the group rule hides the field.
ShouldHide(o, field) ==
  LET groups == ResolveGroups(o, field)
      shouldShow == \/ listContains(groups, o.Groups)
                    \/ (Len(groups) = 0 /\ o.IncludeEmptyTag)
  IN ~shouldShow \/ (Len(groups) = 0 /\ ~o.IncludeEmptyTag)

\* The default filter returning as soon as the group rule has passed,
\* without the version bounds.
DefaultFieldFilterGroupsFirst(o, checkGroups, field) ==
  IF checkGroups
  THEN FRet(~ShouldHide(o, field), "ok", "nil")
  ELSE SinceCheck(o, field)

\* The closure of createDefaultFieldFilter applied to a field.
DefaultFieldFilter(o, checkGroups, field) ==
  IF checkGroups /\ ShouldHide(o, field)
  THEN FRet(FALSE, "ok", "nil")
  ELSE SinceCheck(o, field)

\* The filters a caller supplies:
\*   "hidden"   includes the fields without a hidden tag (as in the tests),
\*   "allowAll" includes every field, "denyAll" none,
\*   "failing"  fails on the fields with a hidden tag.
CallerFilter(id, field) ==
  CASE id = "hidden" -> FRet(~field.hidden, "ok", "nil")
    [] id = "allowAll" -> FRet(TRUE, "ok", "nil")
    [] id = "denyAll" -> FRet(FALSE, "ok", "nil")
    [] OTHER -> IF field.hidden THEN FRet(FALSE, "err", ErrFilter)
                ELSE FRet(TRUE, "ok", "nil")

\* A caller's filter combined with the built-in rules.
FieldFilterWithDefault(o, field) ==
  IF o.FieldFilter.kind = "custom"
  THEN LET c == CallerFilter(o.FieldFilter.id, field)
           b == DefaultFieldFilter(o, Len(o.Groups) > 0, field)
       IN IF c.status # "ok" THEN c
          ELSE IF b.status # "ok" THEN b
          ELSE FRet(c.include /\ b.include, "ok", "nil")
  ELSE DefaultFieldFilter(o, o.FieldFilter.checkGroups, field)

\* options.FieldFilter(field)
FieldFilter(o, field) ==
  IF o.FieldFilter.kind = "custom"
  THEN CallerFilter(o.FieldFilter.id, field)
  ELSE DefaultFieldFilter(o, o.FieldFilter.checkGroups, field)

(***************************************************************************)
(* Marshal and marshalValue.                                               *)
(*                                                                         *)
(* A traversal context ctx carries the Options object as the calls mutate  *)
(* it (o), the calls of options.FieldFilter made so far (log) and the      *)
(* order in which ranges over maps visit the keys (rev).  A call returns   *)
(* Ret: the value, a status "ok", "err" (value nil, error err) or "panic"  *)
(* (the call does not return), and the context it leaves.                  *)
(***************************************************************************)
Ret(ctx, val) == [val |-> val, status |-> "ok", err |-> "nil", ctx |-> ctx]

Fail(ctx, status, err) ==
  [val |-> NilValue, status |-> status, err |-> err, ctx |-> ctx]

\* MarshalInvalidTypeError{t: k}.Error()
ErrInvalidType(k) ==
  "marshaller: Unable to marshal type " \o k \o ". Struct required."

\* Lines 76-82: the lazy initialisation of the options.
InitOptions(o) ==
  LET o1 == IF o.nestedGroupsMap.nil
            THEN [o EXCEPT !.nestedGroupsMap = [nil |-> FALSE, m |-> <<>>]]
            ELSE o
  IN IF o1.FieldFilter.kind = "nil"
     THEN [o1 EXCEPT !.FieldFilter = createDefaultFieldFilter(o1)]
     ELSE o1

\* Lines 143-150: every field name of the embedded struct type is mapped to
\* the groups of the embedded field.
RegisterNested(o, f) ==
  LET names == TypeFieldNames(f)
      parentGroups == Split(f.groups)
      new == {names[i] : i \in 1..Len(names)}
      old == o.nestedGroupsMap.m
  IN [o EXCEPT !.nestedGroupsMap.m =
        [n \in DOMAIN old \cup new |->
           IF n \in new THEN parentGroups ELSE old[n]]]

\* An assignment that keeps the value a key already has.
SetKeepFirst(dest, key, v) ==
  [k \in DOMAIN dest \cup {key} |-> IF k \in DOMAIN dest THEN dest[k] ELSE v]

\* dest[key] = v
Set(dest, key, v) ==
  [k \in DOMAIN dest \cup {key} |-> IF k = key THEN v ELSE dest[k]]

\* Lines 177-179: for key, value := range nestedVal { dest[key] = value }
Splice(dest, nestedVal) ==
  [k \in DOMAIN dest \cup DOMAIN nestedVal |->
     IF k \in DOMAIN nestedVal THEN nestedVal[k] ELSE dest[k]]

\* v.(map[string]interface{})
IsDynMap(v) == v.kind = "map" /\ v.typ = DynMapType

\* Lines 121-131: the kinds the "string" option quotes.
QuotedKind(k) == k \in {"bool", "int", "string"}

\* The quoting step leaving the value as it is.
SprintfVerbatim(v) == v

\* fmt.Sprintf("%v", v) of a scalar.
Sprintf(v) ==
  CASE v.kind = "string" -> GoStr(v.s)
    [] v.kind = "int" -> GoStr(ToString(v.n))
    [] v.kind = "bool" -> GoStr(IF v.b THEN "true" ELSE "false")
    [] OTHER -> GoStr("%v")

\* The order in which a range over the keys of a map visits them: Go leaves
\* it unspecified; the model takes some order or its reverse.
RECURSIVE SomeOrder(_)
SomeOrder(keys) ==
  IF keys = {} THEN <<>>
  ELSE LET k == CHOOSE x \in keys : TRUE
       IN <<k>> \o SomeOrder(keys \ {k})

KeyOrder(keys, rev) ==
  LET ord == SomeOrder(keys)
      n == Len(ord)
  IN IF rev THEN [i \in 1..n |-> ord[n + 1 - i]] ELSE ord

\* The nil check without the nil pointer.
IsNilInputInvalidOnly(d) == d.kind = "invalid"

\* Line 69: the input is nil or a nil pointer.
IsNilInput(d) == d.kind = "invalid" \/ (d.kind = "ptr" /\ d.nil)

\* The never-emit marker not looked at.
NeverEmitIgnored(jsonTag) == FALSE

\* Line 110: the never-emit marker.
NeverEmit(jsonTag) == jsonTag = "-"

\* The omitempty option not looked at.
OmitEmptyIgnored(tagOpts, val) == FALSE

\* Line 113: omitempty on an empty value.
OmitEmpty(tagOpts, val) == Contains(tagOpts, "omitempty") /\ isEmptyValue(val)

\* Line 117: an unexported field (val.CanInterface() is false).
Unexported(field) == ~field.Exported

\* The value the "fixed" Marshaller returns.
HookValue == GoStr("hook")

RECURSIVE Marshal(_, _)
RECURSIVE MarshalStructOnly(_, _)
RECURSIVE marshalValue(_, _)
RECURSIVE marshalValueTextFirst(_, _)
RECURSIVE FieldStep(_, _, _)
RECURSIVE MarshalFields(_, _, _, _, _)
RECURSIVE MarshalFieldsLastError(_, _, _, _, _)
RECURSIVE MarshalSlice(_, _, _, _)
RECURSIVE MarshalSliceReversed(_, _, _, _)
RECURSIVE MarshalMap(_, _, _, _, _)
RECURSIVE MarshalMapUnprojected(_, _, _, _, _)

\* marshaller.Marshal(options) of the Marshaller implementations modelled:
\*   "self"  returns Marshal(options, data), as in the README,
\*   "fixed" returns a value of its own, "fail" an error.
CallHook(ctx, val) ==
  CASE val.hook = "self" -> Marshal(ctx, val)
    [] val.hook = "fixed" -> Ret(ctx, HookValue)
    [] OTHER -> Fail(ctx, "err", ErrHook)

\* The state of the loop over the fields: the mapping built so far, the
\* context, and whether the loop goes on ("ok") or Marshal returns the error.
Step(ctx, dest) == [dest |-> dest, status |-> "ok", err |-> "nil", ctx |-> ctx]

StepFail(ctx, status, err) ==
  [dest |-> <<>>, status |-> status, err |-> err, ctx |-> ctx]

\* Lines 100-182: the body of the loop, for one field.
FieldStep(ctx, field, dest) ==
  LET tag == parseTag(field.json)
      jsonTag == IF tag.name = "" THEN field.Name ELSE tag.name
      quoted == Contains(tag.opts, "string") /\ QuotedKind(field.val.kind)
      val == IF field.val.kind = "ptr" THEN Elem(field.val) ELSE field.val
      isEmbeddedField == field.Anonymous /\ val.kind = "struct"
      o1 == IF isEmbeddedField /\ field.TypeKind = "struct"
            THEN RegisterNested(ctx.o, field)
            ELSE ctx.o
      fr == IF isEmbeddedField THEN FRet(TRUE, "ok", "nil")
            ELSE FieldFilter(o1, field)
      ctx1 == [ctx EXCEPT !.o = o1,
                          !.log = IF isEmbeddedField THEN @
                                  ELSE Append(@, [field |-> field, ret |-> fr])]
  IN IF NeverEmit(jsonTag) THEN Step(ctx, dest)
     ELSE IF OmitEmpty(tag.opts, field.val) THEN Step(ctx, dest)
     ELSE IF Unexported(field) THEN Step(ctx, dest)
     ELSE IF fr.status # "ok" THEN StepFail(ctx1, fr.status, fr.err)
     ELSE IF ~fr.include THEN Step(ctx1, dest)
     ELSE
       LET r == marshalValue(ctx1, val)
           v == IF quoted THEN Sprintf(r.val) ELSE r.val
       IN IF r.status # "ok" THEN StepFail(r.ctx, r.status, r.err)
          ELSE IF isEmbeddedField /\ IsDynMap(v)
          THEN Step(r.ctx, Splice(dest, v.m))
          ELSE Step(r.ctx, Set(dest, jsonTag, v))

\* The loop over the fields going on after a field has failed and returning
\* the last error met.
MarshalFieldsLastError(ctx, s, lo, hi, dest) ==
  IF lo > hi THEN Step(ctx, dest)
  ELSE IF lo = hi THEN FieldStep(ctx, s.fields[lo], dest)
  ELSE LET mid == (lo + hi) \div 2
           left == MarshalFieldsLastError(ctx, s, lo, mid, dest)
           right == MarshalFieldsLastError(left.ctx, s, mid + 1, hi, left.dest)
       IN IF left.status # "ok" /\ right.status = "ok"
          THEN [left EXCEPT !.ctx = right.ctx]
          ELSE right

\* Line 99: the loop over the fields lo..hi of the struct value s, in
\* declaration order, stopping at the first field that makes Marshal
\* return.  The range is cut in two halves run one after the other, which
\* keeps the depth of the evaluation logarithmic in the number of fields.
MarshalFields(ctx, s, lo, hi, dest) ==
  IF lo > hi THEN Step(ctx, dest)
  ELSE IF lo = hi THEN FieldStep(ctx, s.fields[lo], dest)
  ELSE LET mid == (lo + hi) \div 2
           left == MarshalFields(ctx, s, lo, mid, dest)
       IN IF left.status # "ok" THEN left
          ELSE MarshalFields(left.ctx, s, mid + 1, hi, left.dest)

\* Marshal refusing every input that is not a struct or a pointer to one.
MarshalStructOnly(ctx, d) ==
  IF IsNilInput(d) THEN Ret(ctx, d)
  ELSE LET ctx1 == [ctx EXCEPT !.o = InitOptions(@)]
           v == IF d.kind = "ptr" THEN Elem(d) ELSE d
           fs == MarshalFields(ctx1, v, 1, Len(v.fields), <<>>)
       IN IF v.kind # "struct" THEN Fail(ctx1, "err", ErrInvalidType(v.kind))
          ELSE IF fs.status # "ok" THEN Fail(fs.ctx, fs.status, fs.err)
          ELSE Ret(fs.ctx, Map(DynMapType, "string", fs.dest))

\* Lines 67-186.
Marshal(ctx, d) ==
  IF IsNilInput(d)
  THEN Ret(ctx, d)
  ELSE
    LET ctx1 == [ctx EXCEPT !.o = InitOptions(@)]
        v == IF d.kind = "ptr" THEN Elem(d) ELSE d
        fs == MarshalFields(ctx1, v, 1, Len(v.fields), <<>>)
    IN IF v.kind # "struct" THEN marshalValue(ctx1, v)
       ELSE IF fs.status # "ok" THEN Fail(fs.ctx, fs.status, fs.err)
       ELSE Ret(fs.ctx, Map(DynMapType, "string", fs.dest))

\* The loop over a slice storing the elements in reverse order.
MarshalSliceReversed(ctx, v, i, dest) ==
  IF i > Len(v.elems)
  THEN Ret(ctx, Slice(DynSliceType, dest))
  ELSE LET r == marshalValue(ctx, v.elems[i])
       IN IF r.status # "ok" THEN Fail(r.ctx, r.status, r.err)
          ELSE MarshalSliceReversed(r.ctx, v, i + 1, <<r.val>> \o dest)

\* Lines 286-297, for the elements i.. of the slice v.
MarshalSlice(ctx, v, i, dest) ==
  IF i > Len(v.elems)
  THEN Ret(ctx, Slice(DynSliceType, dest))
  ELSE LET r == marshalValue(ctx, v.elems[i])
       IN IF r.status # "ok" THEN Fail(r.ctx, r.status, r.err)
          ELSE MarshalSlice(r.ctx, v, i + 1, Append(dest, r.val))

\* The loop over a map storing the values as they are.
MarshalMapUnprojected(ctx, v, mapKeys, i, dest) ==
  IF i > Len(mapKeys)
  THEN Ret(ctx, Map(DynMapType, "string", dest))
  ELSE LET r == marshalValue(ctx, v.m[mapKeys[i]])
       IN IF r.status # "ok" THEN Fail(r.ctx, r.status, r.err)
          ELSE MarshalMapUnprojected(r.ctx, v, mapKeys, i + 1,
                                     Set(dest, mapKeys[i], v.m[mapKeys[i]]))

\* Lines 306-314, for the keys i.. of mapKeys.
MarshalMap(ctx, v, mapKeys, i, dest) ==
  IF i > Len(mapKeys)
  THEN Ret(ctx, Map(DynMapType, "string", dest))
  ELSE LET r == marshalValue(ctx, v.m[mapKeys[i]])
       IN IF r.status # "ok" THEN Fail(r.ctx, r.status, r.err)
          ELSE MarshalMap(r.ctx, v, mapKeys, i + 1,
                          Set(dest, mapKeys[i], r.val))

\* marshalValue with the test for a text encoding made before the test for
\* a Marshaller.
marshalValueTextFirst(ctx, v) ==
  IF v.kind = "invalid" THEN Ret(ctx, NilValue)
  ELSE
    LET val == Interface(v)
    IN IF val.kind # "invalid" /\ val.text THEN Ret(ctx, val)
       ELSE IF val.kind # "invalid" /\ val.hook # "none" THEN CallHook(ctx, val)
       ELSE IF IsNil(v) THEN Ret(ctx, val)
       ELSE
         LET v2 == IF v.kind = "ptr" THEN v.elem ELSE v
             val2 == Interface(v2)
             k == v2.kind
         IN IF k = "interface" \/ k = "struct" THEN Marshal(ctx, val2)
            ELSE IF k = "slice" THEN MarshalSlice(ctx, v2, 1, <<>>)
            ELSE IF k = "map"
            THEN IF DOMAIN v2.m = {} THEN Ret(ctx, val2)
                 ELSE IF v2.keyKind # "string"
                 THEN Fail(ctx, "err", ErrInvalidType(v2.keyKind))
                 ELSE MarshalMap(ctx, v2, KeyOrder(DOMAIN v2.m, ctx.rev), 1, <<>>)
            ELSE Ret(ctx, val2)

\* Lines 251-317.
marshalValue(ctx, v) ==
  IF v.kind = "invalid" THEN Ret(ctx, NilValue)
  ELSE
    LET val == Interface(v)
    IN IF val.kind # "invalid" /\ val.hook # "none" THEN CallHook(ctx, val)
       ELSE IF val.kind # "invalid" /\ val.text THEN Ret(ctx, val)
       ELSE IF IsNil(v) THEN Ret(ctx, val)
       ELSE
         LET v2 == IF v.kind = "ptr" THEN v.elem ELSE v
             val2 == Interface(v2)
             k == v2.kind
         IN IF k = "interface" \/ k = "struct" THEN Marshal(ctx, val2)
            ELSE IF k = "slice" THEN MarshalSlice(ctx, v2, 1, <<>>)
            ELSE IF k = "map"
            THEN IF DOMAIN v2.m = {} THEN Ret(ctx, val2)
                 ELSE IF v2.keyKind # "string"
                 THEN Fail(ctx, "err", ErrInvalidType(v2.keyKind))
                 ELSE MarshalMap(ctx, v2, KeyOrder(DOMAIN v2.m, ctx.rev), 1, <<>>)
            ELSE Ret(ctx, val2)

(***************************************************************************)
(* The values and options the calls are made with.                         *)
(***************************************************************************)
Key(k) == <<k>>

KeyOmitEmpty(k) == <<k, Comma, "omitempty">>

NoTag == <<>>

\* The User model of the README, with the fields of the scenario of the
\* specification.
User(name, mail, roles) ==
  Struct("User",
    <<Field("Username", Key("username"), <<"api">>, NoTag, NoTag, GoStr(name)),
      Field("Email", Key("email"), <<"personal">>, NoTag, NoTag, GoStr(mail)),
      Field("Roles", Key("roles"), <<"api">>, <<2>>, NoTag,
            Slice("[]string", roles))>>)

Alice == User("alice", "alice@example.org", <<GoStr("user"), GoStr("admin")>>)

Bob == User("bob", "bob@example.org", <<GoStr("user")>>)

\* The tag values the generated fields combine.
GroupTags == <<NoTag, <<"api">>, <<"personal">>, <<"api", Comma, "personal">>,
               <<"admin", Comma>> >>

VersionTags == [i \in 1..(MaxVersion + 2) |->
                  IF i = 1 THEN NoTag
                  ELSE IF i = MaxVersion + 2 THEN <<2, 1>>
                  ELSE <<i - 1>>]

FieldValues == <<GoStr("x"), GoStr(""), GoInt(0), NilPtr, Ptr(GoBool(FALSE)),
                 Slice("[]string", <<>>), NilSlice("[]string")>>

\* The json tags of a generated field number i: a key, a key with omitempty,
\* no tag, omitempty alone, and the never-emit marker.
JsonTags(i) == <<Key("k" \o ToString(i)), KeyOmitEmpty("k" \o ToString(i)),
                 NoTag, <<Comma, "omitempty">>, Key("-")>>

Pick(seq, n) == seq[(n % Len(seq)) + 1]

\* TestGroupsModel generalised: one field for each json tag and group tag,
\* all holding the value val, without version bounds.
GroupsModel(val) ==
  Struct("GroupsModel",
    [i \in 1..(Len(JsonTags(1)) * Len(GroupTags)) |->
       [Field("F" \o ToString(i), Pick(JsonTags(i), i - 1),
              Pick(GroupTags, (i - 1) \div Len(JsonTags(1))), NoTag, NoTag,
              val)
          EXCEPT !.hidden = (i % 3 = 0)]])

\* TestVersionsModel generalised: one field for each since and until bound,
\* all with the group tag groups.
VersionsModel(groups) ==
  Struct("VersionsModel",
    [i \in 1..(Len(VersionTags) * Len(VersionTags)) |->
       [Field("V" \o ToString(i), Key("v" \o ToString(i)), groups,
              Pick(VersionTags, i - 1),
              Pick(VersionTags, (i - 1) \div Len(VersionTags)),
              GoStr("x"))
          EXCEPT !.hidden = (i % 3 = 0)]])

\* Fields whose version bounds do not parse.
BadVersionModel ==
  Struct("BadVersionModel",
    <<Field("Plain", Key("plain"), <<"api">>, NoTag, NoTag, GoStr("x")),
      Field("BadSince", Key("bad_since"), <<"personal">>, <<BadSeg>>, NoTag,
            GoStr("x")),
      Field("BadUntil", Key("bad_until"), NoTag, NoTag, <<2, BadSeg>>,
            GoStr("x")),
      Field("GoodSince", Key("good_since"), <<"api">>, <<2>>, <<BadSeg>>,
            GoStr("x"))>>)

\* TestInlineStruct: unexported fields next to exported ones.
InlineStruct ==
  Struct("TestInlineStruct",
    <<Private(Field("tableName", Key("-"), NoTag, NoTag, NoTag,
                       Struct("", <<Field("Test", NoTag, NoTag, NoTag, NoTag,
                                          GoStr("test"))>>))),
      Private(Field("tableNameWithTag", Key("foo"), NoTag, NoTag, NoTag,
                       Struct("", <<Field("Test", NoTag, NoTag, NoTag, NoTag,
                                          GoStr("testWithTag"))>>))),
      Private(Field("secret", NoTag, <<"api">>, NoTag, NoTag, GoStr("s"))),
      Field("Field", Key("field"), NoTag, NoTag, NoTag, GoStr("World")),
      Field("Field2", Key("field2"), <<"api">>, NoTag, NoTag, NilPtr)>>)

\* TestMarshal_ParentInherit: structs embedded by value, with groups.
UserPrivateInfo ==
  Struct("UserPrivateInfo",
    <<Field("Age", NoTag, NoTag, NoTag, NoTag, GoStr("20"))>>)

UserPublicInfo ==
  Struct("UserPublicInfo",
    <<Field("ID", NoTag, NoTag, NoTag, NoTag, GoStr("F94")),
      Field("Email", NoTag, <<"personal">>, NoTag, NoTag,
            GoStr("hello@hello.com"))>>)

UserInfo ==
  Struct("UserInfo",
    <<Embedded("UserPrivateInfo", NoTag, <<"personal">>, UserPrivateInfo),
      Embedded("UserPublicInfo", NoTag, <<"api">>, UserPublicInfo)>>)

\* The structs of TestMarshal_ParentInherit embedded through pointers.
UserInfoByPointer ==
  Struct("UserInfoByPointer",
    <<Embedded("UserPrivateInfo", NoTag, <<"personal">>, Ptr(UserPrivateInfo)),
      Embedded("UserPublicInfo", NoTag, <<"api">>, Ptr(UserPublicInfo))>>)

\* TestMarshal_EmbeddedField and TestMarshal_EmbeddedFieldEmpty: structs
\* embedded through pointers, with and without an output key of their own.
EmbeddedFoo ==
  Struct("TestMarshal_Embedded",
    <<Field("Foo", Key("foo"), <<"api">>, NoTag, NoTag, GoStr("Hello"))>>)

EmbeddedQux ==
  Struct("TestMarshal_NamedEmbedded",
    <<Field("Qux", Key("qux"), <<"api">>, NoTag, NoTag, GoStr("Big"))>>)

\* Fields with one output key: two plain fields, an embedded struct
\* followed by a plain field, and a plain field followed by an embedded
\* struct.
CollisionModel ==
  Struct("CollisionModel",
    <<Embedded("TestMarshal_Embedded", NoTag, NoTag, Ptr(EmbeddedFoo)),
      Field("First", Key("dup"), <<"api">>, NoTag, NoTag, GoStr("first")),
      Field("Second", Key("dup"), <<"personal">>, NoTag, NoTag,
            GoStr("second")),
      Field("Third", Key("third"), NoTag, NoTag, NoTag, GoStr("third")),
      Field("Early", Key("qux"), <<"api">>, NoTag, NoTag, GoStr("early")),
      Embedded("TestMarshal_NamedEmbedded", NoTag, NoTag, Ptr(EmbeddedQux)),
      Field("Late", Key("foo"), <<"personal">>, NoTag, NoTag,
            GoStr("late"))>>)

EmbeddedCustom ==
  WithText(Struct("TestMarshal_EmbeddedCustom",
    <<Field("Val", NoTag, NoTag, NoTag, NoTag, GoInt(10)),
      Field("Set", NoTag, NoTag, NoTag, NoTag, GoBool(TRUE))>>))

EmbeddedEmpty ==
  Struct("TestMarshal_EmbeddedEmpty",
    <<Field("Foo", NoTag, NoTag, NoTag, NoTag, GoStr("Hello"))>>)

EmbeddedParent ==
  Struct("TestMarshal_EmbeddedParent",
    <<Embedded("TestMarshal_Embedded", NoTag, NoTag, Ptr(EmbeddedFoo)),
      Embedded("TestMarshal_NamedEmbedded", Key("embedded"), NoTag,
               Ptr(EmbeddedQux)),
      Embedded("TestMarshal_EmbeddedCustom", Key("value"), NoTag,
               Ptr(EmbeddedCustom)),
      Embedded("Missing", Key("missing"), <<"api">>, NilPtr),
      Field("Bar", Key("bar"), <<"api">>, NoTag, NoTag, GoStr("World"))>>)

EmbeddedParentEmpty(byValue) ==
  Struct("TestMarshal_EmbeddedParentEmpty",
    <<Embedded("TestMarshal_EmbeddedEmpty", NoTag, NoTag,
               IF byValue THEN EmbeddedEmpty ELSE Ptr(EmbeddedEmpty)),
      Field("Bar", Key("bar"), <<"api">>, NoTag, NoTag, GoStr("World"))>>)

\* A struct embedding UserPublicInfo by value under another group than
\* UserInfo does.
Staff ==
  Struct("Staff",
    <<Embedded("UserPublicInfo", NoTag, <<"personal">>, UserPublicInfo),
      Field("Role", Key("role"), <<"api">>, NoTag, NoTag, GoStr("admin"))>>)

\* An embedded struct followed by a plain struct field whose type has a
\* field of the same name.
Account ==
  Struct("Account",
    <<Field("ID", Key("id"), NoTag, NoTag, NoTag, GoStr("acc")),
      Field("Owner", Key("owner"), <<"api">>, NoTag, NoTag, GoStr("own"))>>)

Profile ==
  Struct("Profile",
    <<Embedded("UserPublicInfo", NoTag, <<"api">>, UserPublicInfo),
      Field("Account", Key("account"), <<"api">>, NoTag, NoTag, Account),
      Field("Age", Key("age"), NoTag, NoTag, NoTag, GoInt(20))>>)

\* Values with a Marshaller or a text encoding of their own.
TimeValue ==
  WithText(Struct("time.Time",
    <<Private(Field("wall", NoTag, NoTag, NoTag, NoTag, GoInt(1)))>>))

\* A type whose text encoding has pointer receivers (as big.Int): the
\* pointer has the encoding, the value it points to has not.
BigInt ==
  Struct("big.Int",
    <<Private(Field("neg", NoTag, NoTag, NoTag, NoTag, GoBool(FALSE))),
      Private(Field("abs", NoTag, NoTag, NoTag, NoTag, GoInt(20)))>>)

BigIntPtr == WithText(Ptr(BigInt))

\* TestMarshal_TimeHack and TestMarshal_Inet: fields whose types have a text
\* encoding, with value receivers (time.Time, *time.Time, net.IP) and with
\* pointer receivers (*big.Int).
TextModel ==
  Struct("TextModel",
    <<Field("Time", Key("time"), <<"api">>, NoTag, NoTag, TimeValue),
      Field("TimePtr", Key("time_ptr"), <<"api">>, NoTag, NoTag,
            WithText(Ptr(TimeValue))),
      Field("IP", Key("ip"), <<"api">>, NoTag, NoTag,
            WithText(Slice("net.IP", <<GoInt(127), GoInt(1)>>))),
      Field("Big", Key("big"), <<"personal">>, NoTag, NoTag, BigIntPtr)>>)

HookModel(h) ==
  Struct("HookModel",
    <<Field("Self", Key("self"), <<"api">>, NoTag, NoTag,
            WithHook(Bob, "self")),
      Field("Hooked", Key("hooked"), <<"api">>, NoTag, NoTag,
            WithHook(GoStr("x"), h)),
      Field("Time", Key("time"), <<"api">>, NoTag, NoTag, TimeValue),
      Field("Both", Key("both"), <<"api">>, NoTag, NoTag,
            WithHook(TimeValue, "fixed")),
      Field("After", Key("after"), <<"personal">>, NoTag, NoTag,
            GoStr("after"))>>)

\* Nested structs, slices, maps, interfaces and pointers as field values.
NestedModel ==
  Struct("NestedModel",
    <<Field("Inner", Key("inner"), <<"api">>, NoTag, NoTag, Alice),
      Field("List", Key("list"), <<"api">>, <<2>>, NoTag,
            Slice("[]User", <<Alice, Bob>>)),
      Field("ByName", Key("by_name"), NoTag, NoTag, NoTag,
            Map("map[string]User", "string",
                [k \in {"a", "b"} |-> IF k = "a" THEN Alice ELSE Bob])),
      Field("Data", Key("data"), NoTag, NoTag, NoTag, NilIface),
      Field("Any", Key("any"), <<"personal">>, NoTag, NoTag, Iface(Bob)),
      Field("Ptr", KeyOmitEmpty("ptr"), <<"api">>, NoTag, NoTag, Ptr(Alice)),
      Field("Note", KeyOmitEmpty("note"), <<"api">>, NoTag, NoTag,
            GoStr("")),
      Field("AMap", Key("a_map"), <<"api">>, NoTag, NoTag,
            Map("map[string]string", "string", <<>>)),
      Field("Count", <<"count", Comma, "string">>, <<"api">>, NoTag, NoTag,
            GoInt(12))>>)

\* Fields carrying the "string" option of the json tag, on scalars and on
\* values of other kinds.
QuotedModel ==
  Struct("QuotedModel",
    <<Field("Count", <<"count", Comma, "string">>, <<"api">>, NoTag, NoTag,
            GoInt(7)),
      Field("Flag", <<"flag", Comma, "string">>, <<"personal">>, NoTag,
            NoTag, GoBool(TRUE)),
      Field("Name", <<"name", Comma, "string">>, NoTag, NoTag, NoTag,
            GoStr("n")),
      Field("PCount", <<"p_count", Comma, "string">>, <<"api">>, NoTag,
            NoTag, Ptr(GoInt(3))),
      Field("Tags", <<"tags", Comma, "string">>, <<"api">>, NoTag, NoTag,
            Slice("[]string", <<GoStr("a")>>)),
      Field("Owner", <<"owner", Comma, "string">>, <<"personal">>, NoTag,
            NoTag, Alice),
      Field("Plain", Key("plain"), <<"api">>, NoTag, NoTag, GoInt(7))>>)

\* A struct with a field of array type.
ArrayModel ==
  Struct("ArrayModel",
    <<Field("Name", Key("name"), <<"api">>, NoTag, NoTag, GoStr("n")),
      Field("Pair", Key("pair"), <<"api">>, NoTag, NoTag,
            Array("[2]User", <<Alice, Bob>>))>>)

BadKeyModel ==
  Struct("BadKeyModel",
    <<Field("Plain", Key("plain"), <<"api">>, NoTag, NoTag, GoStr("x")),
      Field("ByID", Key("by_id"), <<"personal">>, NoTag, NoTag,
            Map("map[int]string", "int", [k \in {1} |-> GoStr("one")]))>>)

Structs ==
  {GroupsModel(FieldValues[i]) : i \in 1..Len(FieldValues)}
  \cup {VersionsModel(g) : g \in {NoTag, <<"api">>, <<"personal">>}}
  \cup
  {Alice, Bob, BadVersionModel, InlineStruct, CollisionModel, UserInfo,
   UserInfoByPointer, EmbeddedParent, TextModel,
   EmbeddedParentEmpty(TRUE), EmbeddedParentEmpty(FALSE), Profile,
   HookModel("fixed"), HookModel("fail"), NestedModel, BadKeyModel,
   QuotedModel, ArrayModel}

\* Sequences of at most n elements of S.
SeqsUpTo(S, n) == UNION {[1..k -> S] : k \in 0..n}

SliceElems == {Alice, Bob, Profile, Account}

Slices ==
  {Slice("[]T", q) : q \in SeqsUpTo(SliceElems, MaxSliceLen)}
  \cup {Slice("[]*T", [i \in 1..Len(q) |-> Ptr(q[i])]) :
          q \in SeqsUpTo({Alice, Bob}, MaxSliceLen)}
  \cup {Slice(DynSliceType, q) :
          q \in SeqsUpTo({Iface(Alice), Iface(GoStr("s")), NilIface},
                         MaxSliceLen)}
  \cup {Slice("[]string", <<GoStr("test"), GoStr("bla")>>),
        Slice("[]T", <<Alice, BadVersionModel, Bob>>),
        NilSlice("[]string"), NilSlice("[]T")}

Maps ==
  {Map("map[string]User", "string",
       [k \in {"a", "b"} |-> IF k = "a" THEN Alice ELSE Bob]),
   Map("map[string]*bool", "string",
       [k \in {"example", "another"} |->
          IF k = "example" THEN Ptr(GoBool(TRUE)) ELSE NilPtr]),
   Map("map[string]User", "string", <<>>),
   Map("map[AliasString]string", "string", [k \in {"one"} |-> GoStr("two")]),
   Map("map[int]string", "int", [k \in {1, 2} |-> GoStr("v")]),
   Map("map[int]string", "int", <<>>),
   NilMap("map[string]User", "string")}

Scalars == {GoStr("test"), GoInt(5), GoBool(TRUE)}

\* Values whose type implements Marshaller, given to Marshal directly or
\* held by a slice or a map.
HookInputs ==
  {WithHook(Alice, "self"), WithHook(Bob, "fixed"),
   WithHook(Slice("[]T", <<Alice>>), "fixed"),
   WithHook(GoStr("s"), "fail"),
   Slice("[]M", <<WithHook(Bob, "fixed"), Alice>>),
   Map("map[string]M", "string",
       [k \in {"a", "b"} |-> IF k = "a" THEN WithHook(TimeValue, "fixed")
                                         ELSE Alice])}

\* Values whose type has a text encoding, held by a slice or a map.
TextInputs ==
  {Slice("[]time.Time", <<TimeValue, Alice>>),
   Slice("[]*big.Int", <<BigIntPtr>>),
   Map("map[string]net.IP", "string",
       [k \in {"a"} |-> WithText(Slice("net.IP", <<GoInt(127)>>))])}

Arrays == {Array("[2]User", <<Alice, Bob>>), Array("[1]string", <<GoStr("a")>>)}

Inputs ==
  {NilValue, NilPtr}
  \cup Structs \cup {Ptr(x) : x \in Structs}
  \cup Slices \cup Arrays \cup Maps \cup Scalars
  \cup HookInputs \cup TextInputs \cup {Ptr(Slice("[]T", <<Alice>>))}

GroupSets == {<<>>, <<"api">>, <<"personal">>, <<"api", "personal">>,
              <<"other">>}

Versions == {NilVersion, Version(2, 1, 0)}
            \cup {Version(n, 0, 0) : n \in 1..MaxVersion}

Filters == {NilFilter} \cup
           {CustomFilter(id) : id \in {"hidden", "allowAll", "denyAll",
                                       "failing"}}

(***************************************************************************)
(* The program: a caller builds an Options object, sets its public fields  *)
(* and makes one top-level call of Marshal with it.                        *)
(***************************************************************************)
NoResult == [val |-> NilValue, status |-> "none", err |-> "nil"]

\* o := &Options{}
EmptyOptions == MakeOptions(NilFilter, <<>>, NilVersion, FALSE)

Init ==
  /\ opts = EmptyOptions
  /\ data = NilValue
  /\ result = NoResult
  /\ log = <<>>
  /\ heap = <<>>
  /\ calls = <<>>

\* The caller drops the Options object of a returned call and builds a new
\* one.
NewOptions ==
  /\ result.status # "none"
  /\ opts' = EmptyOptions
  /\ data' = NilValue
  /\ result' = NoResult
  /\ log' = <<>>
  /\ UNCHANGED <<heap, calls>>

\* o.FieldFilter = ff
SetFieldFilter(ff) ==
  /\ result.status = "none"
  /\ opts' = [opts EXCEPT !.FieldFilter = ff]
  /\ UNCHANGED <<data, result, log, heap, calls>>

\* o.Groups = groups
SetGroups(groups) ==
  /\ result.status = "none"
  /\ opts' = [opts EXCEPT !.Groups = groups]
  /\ UNCHANGED <<data, result, log, heap, calls>>

\* o.ApiVersion = ver
SetApiVersion(ver) ==
  /\ result.status = "none"
  /\ opts' = [opts EXCEPT !.ApiVersion = ver]
  /\ UNCHANGED <<data, result, log, heap, calls>>

\* o.IncludeEmptyTag = iet
SetIncludeEmptyTag(iet) ==
  /\ result.status = "none"
  /\ opts' = [opts EXCEPT !.IncludeEmptyTag = iet]
  /\ UNCHANGED <<data, result, log, heap, calls>>

\* v, err := Marshal(o, d)
CallMarshal(d, rev) ==
  /\ result.status = "none"
  /\ \E r \in {Marshal([o |-> opts, log |-> <<>>, rev |-> rev], d)} :
        /\ opts' = r.ctx.o
        /\ data' = d
        /\ result' = [val |-> r.val, status |-> r.status, err |-> r.err]
        /\ log' = r.ctx.log
  /\ UNCHANGED <<heap, calls>>

Next ==
  \/ NewOptions
  \/ \E ff \in Filters : SetFieldFilter(ff)
  \/ \E groups \in GroupSets : SetGroups(groups)
  \/ \E ver \in Versions : SetApiVersion(ver)
  \/ \E iet \in BOOLEAN : SetIncludeEmptyTag(iet)
  \/ \E d \in Inputs, rev \in BOOLEAN : CallMarshal(d, rev)

Spec == Init /\ [][Next]_vars

(***************************************************************************)
(* The program handing a result back to Marshal: after a call has returned *)
(* without error the caller calls Marshal on the result, with the same or  *)
(* with another Options object.                                            *)
(***************************************************************************)
\* The result r as a Go value handed to Marshal again: the elements of a
\* []interface{} and the values of a map[string]interface{} are interface
\* values holding what the projection stored.
RECURSIVE Reboxed(_)
Box(x) == IF x.kind = "invalid" THEN NilIface ELSE Iface(Reboxed(x))

Reboxed(r) ==
  IF r.kind = "slice" /\ r.typ = DynSliceType /\ ~r.nil
  THEN [r EXCEPT !.elems = [i \in 1..Len(r.elems) |-> Box(r.elems[i])]]
  ELSE IF r.kind = "map" /\ r.typ = DynMapType /\ ~r.nil
  THEN [r EXCEPT !.m = [k \in DOMAIN r.m |-> Box(r.m[k])]]
  ELSE r

\* The Options objects of the first call.
FirstOptions ==
  {EmptyOptions,
   MakeOptions(NilFilter, <<"api">>, Version(2, 0, 0), FALSE),
   MakeOptions(NilFilter, <<"api", "personal">>, Version(1, 0, 0), TRUE),
   MakeOptions(CustomFilter("allowAll"), <<>>, NilVersion, FALSE)}

\* The Options objects of the second call: every filter of the model with
\* no groups and no version, and the built-in filter with and without
\* groups, version and IncludeEmptyTag.
AnyOptions ==
  {MakeOptions(ff, <<>>, NilVersion, FALSE) : ff \in Filters}
  \cup {MakeOptions(NilFilter, groups, ver, iet) :
          groups \in {<<"api">>, <<"other">>},
          ver \in {NilVersion, Version(1, 0, 0)}, iet \in BOOLEAN}

\* o := &Options{...}
UseOptions(o) ==
  /\ result.status = "none"
  /\ opts' = o
  /\ UNCHANGED <<data, result, log, heap, calls>>

\* v2, err := Marshal(o, v) on the result v of the call before.
MarshalResult(o, rev) ==
  /\ result.status = "ok"
  /\ \E r \in {Marshal([o |-> o, log |-> <<>>, rev |-> rev],
                        Reboxed(result.val))} :
        /\ opts' = r.ctx.o
        /\ data' = Reboxed(result.val)
        /\ result' = [val |-> r.val, status |-> r.status, err |-> r.err]
        /\ log' = r.ctx.log
  /\ UNCHANGED <<heap, calls>>

NextAgain ==
  \/ NewOptions
  \/ \E o \in FirstOptions : UseOptions(o)
  \/ \E d \in Inputs, rev \in BOOLEAN : CallMarshal(d, rev)
  \/ \E o \in AnyOptions \cup {opts}, rev \in BOOLEAN : MarshalResult(o, rev)

SpecAgain == Init /\ [][NextAgain]_vars

(***************************************************************************)
(* The program with an Options object kept over several calls: after a     *)
(* call has returned the caller keeps the object, may change its public    *)
(* fields, and calls Marshal with it again.                                *)
(***************************************************************************)
\* The structs given to the calls that share an Options object.
ReuseInputs ==
  {Alice, Account, Profile, UserInfo, EmbeddedParentEmpty(TRUE),
   VersionsModel(<<"api">>), NilPtr}

\* The caller has read the result of a call and keeps the Options object
\* for the next one.
KeepOptions ==
  /\ result.status # "none"
  /\ data' = NilValue
  /\ result' = NoResult
  /\ log' = <<>>
  /\ UNCHANGED <<opts, heap, calls>>

NextReuse ==
  \/ NewOptions
  \/ KeepOptions
  \/ \E ff \in Filters : SetFieldFilter(ff)
  \/ \E groups \in GroupSets : SetGroups(groups)
  \/ \E ver \in Versions : SetApiVersion(ver)
  \/ \E iet \in BOOLEAN : SetIncludeEmptyTag(iet)
  \/ \E d \in ReuseInputs : CallMarshal(d, FALSE)

SpecReuse == Init /\ [][NextReuse]_vars

(***************************************************************************)
(* Marshal step by step.  A goroutine runs a top-level call of Marshal as  *)
(* a stack of frames of Marshal, marshalValue and Marshaller hooks; one    *)
(* step is the entry of a call, one turn of a loop or one return.  The     *)
(* Options objects live on the heap, and two goroutines may have been      *)
(* given the same object.                                                  *)
(*   heap[oid]  : o the object, o0 the object as the caller built it,      *)
(*                writer the goroutine that last wrote each table entry,   *)
(*                remade whether a table with entries was replaced         *)
(*   calls[g]   : oid the object of the call, input its data, stack its    *)
(*                frames, rv the value a callee has just returned, ret     *)
(*                the outcome of the call (status "none" while it runs),   *)
(*                cross whether the filter has read a table entry written  *)
(*                by the other goroutine                                   *)
(***************************************************************************)
MaxStack == 16

Object(o) == [o |-> o, o0 |-> o, writer |-> <<>>, remade |-> FALSE]

Frame(fn, v) ==
  [fn |-> fn, pc |-> "entry", v |-> v, i |-> 1, dest |-> <<>>, keys |-> <<>>]

Goroutine(oid, d) ==
  [oid |-> oid, input |-> d, stack |-> <<Frame("Marshal", d)>>,
   rv |-> NoResult, ret |-> NoResult, cross |-> FALSE]

\* Every goroutine working on the first object of the heap.
ObjShared(g) == 1

\* The Options object the call of goroutine g was given.
Obj(g) == calls[g].oid

Running(g) == g \in DOMAIN calls /\ calls[g].ret.status = "none"

Top(c) == c.stack[Len(c.stack)]

OkVal(v) == [val |-> v, status |-> "ok", err |-> "nil"]

ErrVal(status, err) == [val |-> NilValue, status |-> status, err |-> err]

ErrConcurrentMap == "fatal error: concurrent map read and map write"

\* The goroutine after its top frame has become f.
SetTop(c, f) == [c EXCEPT !.stack[Len(c.stack)] = f, !.rv = NoResult]

\* The goroutine after its top frame, left as f, has called callee.
Push(c, f, callee) ==
  [c EXCEPT !.stack = Append([@ EXCEPT ![Len(@)] = f], callee),
            !.rv = NoResult]

\* The goroutine after its top frame has returned r.
Return(c, r) ==
  LET s == SubSeq(c.stack, 1, Len(c.stack) - 1)
  IN IF Len(s) = 0 THEN [c EXCEPT !.stack = s, !.ret = r, !.rv = NoResult]
     ELSE [c EXCEPT !.stack = s, !.rv = r]

\* The goroutine after a panic: the call does not return.
Crash(c, err) ==
  [c EXCEPT !.stack = <<>>, !.ret = ErrVal("panic", err), !.rv = NoResult]

Out(c, h) == [g |-> c, obj |-> h]

\* Lines 200-202: the filter looks the field up in the table and finds an
\* entry that goroutine g has not written.
ReadsForeign(h, field, g) ==
  /\ h.o.FieldFilter.kind = "default" /\ h.o.FieldFilter.checkGroups
  /\ field.groups = <<>>
  /\ field.Name \in DOMAIN h.o.nestedGroupsMap.m
  /\ h.writer[field.Name] # g

\* Lines 80-99: the filter is installed, the pointer followed, and the
\* call goes on to the loop over the fields or to marshalValue.
Dispatch(c, h) ==
  LET f == Top(c)
      h1 == [h EXCEPT !.o = InitOptions(@)]
      v == IF f.v.kind = "ptr" THEN Elem(f.v) ELSE f.v
  IN IF v.kind # "struct"
     THEN Out(Push(c, [f EXCEPT !.pc = "tail"], Frame("marshalValue", v)), h1)
     ELSE Out(SetTop(c, [f EXCEPT !.pc = "loop", !.v = v]), h1)

\* Lines 100-165: one field up to the call of marshalValue on its value.
FieldEnter(g, c, h) ==
  LET f == Top(c)
      field == f.v.fields[f.i]
      tag == parseTag(field.json)
      jsonTag == IF tag.name = "" THEN field.Name ELSE tag.name
      val == IF field.val.kind = "ptr" THEN Elem(field.val) ELSE field.val
      isEmbeddedField == field.Anonymous /\ val.kind = "struct"
      names == {TypeFieldNames(field)[k] : k \in 1..Len(TypeFieldNames(field))}
      h1 == IF isEmbeddedField /\ field.TypeKind = "struct"
            THEN [h EXCEPT !.o = RegisterNested(@, field),
                           !.writer = [n \in DOMAIN h.writer \cup names |->
                                         IF n \in names THEN g
                                         ELSE h.writer[n]]]
            ELSE h
      fr == IF isEmbeddedField THEN FRet(TRUE, "ok", "nil")
            ELSE FieldFilter(h1.o, field)
      c1 == [c EXCEPT !.cross = @ \/ (~isEmbeddedField
                                       /\ ReadsForeign(h, field, g))]
      next == [f EXCEPT !.i = @ + 1]
  IN IF NeverEmit(jsonTag) \/ OmitEmpty(tag.opts, field.val)
        \/ Unexported(field)
     THEN Out(SetTop(c, next), h)
     ELSE IF fr.status = "panic" THEN Out(Crash(c1, fr.err), h1)
     ELSE IF fr.status # "ok"
     THEN Out(Return(c1, ErrVal(fr.status, fr.err)), h1)
     ELSE IF ~fr.include THEN Out(SetTop(c1, next), h1)
     ELSE Out(Push(c1, [f EXCEPT !.pc = "fieldret"],
                   Frame("marshalValue", val)), h1)

\* Lines 165-182: marshalValue has returned for the field.
FieldReturn(c, h) ==
  LET f == Top(c)
      field == f.v.fields[f.i]
      tag == parseTag(field.json)
      jsonTag == IF tag.name = "" THEN field.Name ELSE tag.name
      quoted == Contains(tag.opts, "string") /\ QuotedKind(field.val.kind)
      val == IF field.val.kind = "ptr" THEN Elem(field.val) ELSE field.val
      isEmbeddedField == field.Anonymous /\ val.kind = "struct"
      v == IF quoted THEN Sprintf(c.rv.val) ELSE c.rv.val
      dest == IF isEmbeddedField /\ IsDynMap(v) THEN Splice(f.dest, v.m)
              ELSE Set(f.dest, jsonTag, v)
  IN IF c.rv.status # "ok"
     THEN Out(Return(c, ErrVal(c.rv.status, c.rv.err)), h)
     ELSE Out(SetTop(c, [f EXCEPT !.pc = "loop", !.i = @ + 1,
                                  !.dest = dest]), h)

\* One step of a frame of Marshal.  The test of line 76 and the assignment
\* of line 77 are two steps.
MarshalStep(g, c, h) ==
  LET f == Top(c)
  IN CASE f.pc = "entry" ->
            IF IsNilInput(f.v) THEN Out(Return(c, OkVal(f.v)), h)
            ELSE IF h.o.nestedGroupsMap.nil
            THEN Out(SetTop(c, [f EXCEPT !.pc = "maketable"]), h)
            ELSE Dispatch(c, h)
       [] f.pc = "maketable" ->
            Dispatch(c, [h EXCEPT
                           !.o.nestedGroupsMap = [nil |-> FALSE, m |-> <<>>],
                           !.writer = <<>>,
                           !.remade = @ \/ DOMAIN h.o.nestedGroupsMap.m # {}])
       [] f.pc = "loop" ->
            IF f.i > Len(f.v.fields)
            THEN Out(Return(c, OkVal(Map(DynMapType, "string", f.dest))), h)
            ELSE FieldEnter(g, c, h)
       [] f.pc = "fieldret" -> FieldReturn(c, h)
       [] OTHER -> Out(Return(c, c.rv), h)

\* One step of a frame of marshalValue.
ValueStep(c, h) ==
  LET f == Top(c)
      val == Interface(f.v)
      v2 == IF f.v.kind = "ptr" THEN f.v.elem ELSE f.v
      val2 == Interface(v2)
      k == v2.kind
      failed == Out(Return(c, ErrVal(c.rv.status, c.rv.err)), h)
  IN CASE f.pc = "entry" ->
            IF f.v.kind = "invalid" THEN Out(Return(c, OkVal(NilValue)), h)
            ELSE IF val.kind # "invalid" /\ val.hook # "none"
            THEN Out(Push(c, [f EXCEPT !.pc = "tail"], Frame("hook", val)), h)
            ELSE IF val.kind # "invalid" /\ val.text
            THEN Out(Return(c, OkVal(val)), h)
            ELSE IF IsNil(f.v) THEN Out(Return(c, OkVal(val)), h)
            ELSE IF k = "interface" \/ k = "struct"
            THEN Out(Push(c, [f EXCEPT !.pc = "tail"],
                          Frame("Marshal", val2)), h)
            ELSE IF k = "slice"
            THEN Out(SetTop(c, [f EXCEPT !.pc = "elems", !.v = v2]), h)
            ELSE IF k = "map"
            THEN IF DOMAIN v2.m = {} THEN Out(Return(c, OkVal(val2)), h)
                 ELSE IF v2.keyKind # "string"
                 THEN Out(Return(c, ErrVal("err",
                                           ErrInvalidType(v2.keyKind))), h)
                 ELSE Out(SetTop(c, [f EXCEPT
                                       !.pc = "entries", !.v = v2,
                                       !.keys = KeyOrder(DOMAIN v2.m, FALSE)]),
                          h)
            ELSE Out(Return(c, OkVal(val2)), h)
       [] f.pc = "elems" ->
            IF f.i > Len(f.v.elems)
            THEN Out(Return(c, OkVal(Slice(DynSliceType, f.dest))), h)
            ELSE Out(Push(c, [f EXCEPT !.pc = "elemret"],
                          Frame("marshalValue", f.v.elems[f.i])), h)
       [] f.pc = "elemret" ->
            IF c.rv.status # "ok" THEN failed
            ELSE Out(SetTop(c, [f EXCEPT !.pc = "elems", !.i = @ + 1,
                                         !.dest = Append(@, c.rv.val)]), h)
       [] f.pc = "entries" ->
            IF f.i > Len(f.keys)
            THEN Out(Return(c, OkVal(Map(DynMapType, "string", f.dest))), h)
            ELSE Out(Push(c, [f EXCEPT !.pc = "entryret"],
                          Frame("marshalValue", f.v.m[f.keys[f.i]])), h)
       [] f.pc = "entryret" ->
            IF c.rv.status # "ok" THEN failed
            ELSE Out(SetTop(c, [f EXCEPT
                                  !.pc = "entries", !.i = @ + 1,
                                  !.dest = Set(@, f.keys[f.i], c.rv.val)]), h)
       [] OTHER -> Out(Return(c, c.rv), h)

\* One step of a frame of a Marshaller hook: the "self" hook calls
\* Marshal(options, u) on its receiver and returns what it returns.
HookStep(c, h) ==
  LET f == Top(c)
  IN CASE f.pc = "entry" /\ f.v.hook = "self" ->
            Out(Push(c, [f EXCEPT !.pc = "tail"], Frame("Marshal", f.v)), h)
       [] f.pc = "entry" /\ f.v.hook = "fixed" ->
            Out(Return(c, OkVal(HookValue)), h)
       [] f.pc = "entry" -> Out(Return(c, ErrVal("err", ErrHook)), h)
       [] OTHER -> Out(Return(c, c.rv), h)

StepOf(g) ==
  LET c == calls[g]
      h == heap[Obj(g)]
  IN CASE Top(c).fn = "Marshal" -> MarshalStep(g, c, h)
       [] Top(c).fn = "marshalValue" -> ValueStep(c, h)
       [] OTHER -> HookStep(c, h)

\* Goroutine g takes its next step.
StepCall(g) ==
  /\ Running(g)
  /\ Len(calls[g].stack) <= MaxStack
  /\ \E r \in {StepOf(g)} :
       /\ calls' = [calls EXCEPT ![g] = r.g]
       /\ heap' = [heap EXCEPT ![Obj(g)] = r.obj]
  /\ UNCHANGED <<opts, data, result, log>>

\* The access to the table (a Go map) that the next step of g makes.
Access(g) ==
  LET c == calls[g]
      h == heap[Obj(g)]
      f == Top(c)
      field == f.v.fields[f.i]
      tag == parseTag(field.json)
      jsonTag == IF tag.name = "" THEN field.Name ELSE tag.name
      val == IF field.val.kind = "ptr" THEN Elem(field.val) ELSE field.val
      isEmbeddedField == field.Anonymous /\ val.kind = "struct"
  IN IF f.fn # "Marshal" \/ f.pc # "loop" THEN "none"
     ELSE IF f.i > Len(f.v.fields) THEN "none"
     ELSE IF NeverEmit(jsonTag) \/ OmitEmpty(tag.opts, field.val)
             \/ Unexported(field)
     THEN "none"
     ELSE IF isEmbeddedField
     THEN (IF field.TypeKind = "struct" THEN "write" ELSE "none")
     ELSE IF h.o.FieldFilter.kind = "default" /\ h.o.FieldFilter.checkGroups
             /\ field.groups = <<>>
     THEN "read"
     ELSE "none"

\* Two goroutines are about to access the one table at the same time, one
\* of them writing: the accesses are not synchronised, and the runtime may
\* stop the program on the concurrent map access.
Fault ==
  /\ Running(1) /\ Running(2) /\ Obj(1) = Obj(2)
  /\ <<Access(1), Access(2)>> \in
       {<<"write", "write">>, <<"write", "read">>, <<"read", "write">>}
  /\ calls' = [g \in DOMAIN calls |-> Crash(calls[g], ErrConcurrentMap)]
  /\ UNCHANGED <<opts, data, result, log, heap>>

\* The options and inputs of the calls run step by step.
StepOptions ==
  {EmptyOptions,
   MakeOptions(NilFilter, <<"api">>, Version(2, 0, 0), FALSE),
   MakeOptions(NilFilter, <<"personal">>, NilVersion, TRUE),
   MakeOptions(CustomFilter("failing"), <<>>, NilVersion, FALSE)}

StepInputs ==
  HookInputs \cup TextInputs
  \cup {NilPtr, Alice, Ptr(Bob), GoStr("test"), HookModel("fixed"),
        HookModel("fail"), NestedModel, VersionsModel(<<"api">>),
        BadKeyModel, UserInfo}

ConcOptions ==
  {MakeOptions(NilFilter, groups, NilVersion, iet) :
     groups \in {<<"api">>, <<"personal">>}, iet \in BOOLEAN}

ConcInputs == {UserInfo, Staff, Account}

\* v, err := Marshal(o, d)
SpawnOne(o, d) ==
  /\ calls = <<>>
  /\ heap' = <<Object(o)>>
  /\ calls' = <<Goroutine(1, d)>>
  /\ UNCHANGED <<opts, data, result, log>>

\* go Marshal(o, dA); go Marshal(o, dB) on one Options object, or on two
\* objects with the same fields.
SpawnTwo(shared, o, dA, dB) ==
  /\ calls = <<>>
  /\ heap' = IF shared THEN <<Object(o)>> ELSE <<Object(o), Object(o)>>
  /\ calls' = <<Goroutine(1, dA), Goroutine(IF shared THEN 1 ELSE 2, dB)>>
  /\ UNCHANGED <<opts, data, result, log>>

\* The caller has read the outcomes of the calls.
Collect ==
  /\ calls # <<>>
  /\ \A g \in DOMAIN calls : ~Running(g)
  /\ calls' = <<>>
  /\ heap' = <<>>
  /\ UNCHANGED <<opts, data, result, log>>

Run == \E g \in 1..2 : StepCall(g)

NextSteps ==
  \/ \E o \in StepOptions, d \in StepInputs : SpawnOne(o, d)
  \/ \E shared \in BOOLEAN, o \in ConcOptions, dA \in ConcInputs,
        dB \in ConcInputs : SpawnTwo(shared, o, dA, dB)
  \/ Run
  \/ Fault
  \/ Collect

SpecSteps == Init /\ [][NextSteps]_vars

\* The scheduler runs a goroutine that can take a step.
SpecStepsFair == SpecSteps /\ WF_vars(Run)

(***************************************************************************)
(* Vocabulary of the properties.                                           *)
(***************************************************************************)
Deref(v) == IF v.kind = "ptr" THEN Elem(v) ELSE v

\* The last call was made on a struct or on a pointer to one.
StructInput == result.status # "none" /\ Deref(data).kind = "struct"

\* The last call returned the output mapping of a struct.
ReturnedMapping == StructInput /\ result.status = "ok"

TopFields == Deref(data).fields

OutKeys == DOMAIN result.val.m

BuiltInFilter == opts.FieldFilter.kind = "default"

\* The output key of a field: the declared one or the field's name.
JsonKey(f) ==
  LET name == parseTag(f.json).name IN IF name = "" THEN f.Name ELSE name

IsComposed(f) == f.Anonymous /\ Deref(f.val).kind = "struct"

PlainExported(f) == f.Exported /\ ~IsComposed(f)

HasNeverEmit(f) == JsonKey(f) = "-"

OmittedAsEmpty(f) ==
  Contains(parseTag(f.json).opts, "omitempty") /\ isEmptyValue(f.val)

\* The keys the fields of a struct value can write into its mapping.
RECURSIVE KeysOf(_)
KeysOf(s) ==
  UNION {IF IsComposed(s.fields[j])
         THEN {JsonKey(s.fields[j])} \cup KeysOf(Deref(s.fields[j].val))
         ELSE {JsonKey(s.fields[j])} : j \in 1..Len(s.fields)}

\* No other field of the struct writes the key of field i.
SoleWriter(s, i) ==
  \A j \in (1..Len(s.fields)) \ {i} :
    JsonKey(s.fields[i]) \notin
      (IF IsComposed(s.fields[j])
       THEN {JsonKey(s.fields[j])} \cup KeysOf(Deref(s.fields[j].val))
       ELSE {JsonKey(s.fields[j])})

\* A field the traversal hands to the field filter and whose presence can
\* be read off the mapping.
Candidate(i) ==
  LET f == TopFields[i]
  IN /\ PlainExported(f)
     /\ ~HasNeverEmit(f)
     /\ ~OmittedAsEmpty(f)
     /\ SoleWriter(Deref(data), i)

Present(i) == JsonKey(TopFields[i]) \in OutKeys

\* One of the comma-separated groups of the field is an active group.
GroupsMatch(f) ==
  \E a \in 1..Len(Split(f.groups)), b \in 1..Len(opts.Groups) :
    Split(f.groups)[a] = opts.Groups[b]

DeclaresGroups(f) == f.groups # <<>>

HasInheritedGroups(f) == f.Name \in DOMAIN opts.nestedGroupsMap.m

\* v >= s on version segments.
AtLeast(v, s) ==
  \/ v = s
  \/ \E i \in 1..3 : v[i] > s[i] /\ \A j \in 1..(i - 1) : v[j] = s[j]

SinceRule(f) ==
  \/ f.since = <<>>
  \/ /\ NewVersion(f.since).ok
     /\ ~opts.ApiVersion.nil
     /\ AtLeast(opts.ApiVersion.seg, NewVersion(f.since).v.seg)

UntilRule(f) ==
  \/ f.until = <<>>
  \/ /\ NewVersion(f.until).ok
     /\ ~opts.ApiVersion.nil
     /\ AtLeast(NewVersion(f.until).v.seg, opts.ApiVersion.seg)

VersionRule(f) == SinceRule(f) /\ UntilRule(f)

\* The group rule, for a field that declares groups or inherits none.
GroupRule(f) ==
  \/ Len(opts.Groups) = 0
  \/ DeclaresGroups(f) /\ GroupsMatch(f)
  \/ ~DeclaresGroups(f) /\ ~HasInheritedGroups(f) /\ opts.IncludeEmptyTag

(***************************************************************************)
(* C1.  Group filter soundness: under the built-in filter with a non-empty *)
(* Options.Groups, a plain exported field that declares groups, is not     *)
(* never-emit, is not omitted as empty and passes the version rule is in   *)
(* the output mapping iff one of its comma-separated groups is in          *)
(* Options.Groups.                                                         *)
(***************************************************************************)
C1_GroupFilterSoundness ==
  (ReturnedMapping /\ BuiltInFilter /\ Len(opts.Groups) > 0) =>
    \A i \in 1..Len(TopFields) :
      (Candidate(i) /\ DeclaresGroups(TopFields[i]) /\ VersionRule(TopFields[i]))
        => (Present(i) <=> GroupsMatch(TopFields[i]))

\* A call where one declared group of two matches and the field is present
\* while a field of another group is absent.
C1_Witness ==
  /\ ReturnedMapping /\ BuiltInFilter /\ opts.Groups = <<"personal">>
  /\ \E i \in 1..Len(TopFields) :
       /\ TopFields[i].groups = <<"api", Comma, "personal">>
       /\ Candidate(i) /\ Present(i)
  /\ \E j \in 1..Len(TopFields) :
       /\ TopFields[j].groups = <<"api">>
       /\ Candidate(j) /\ ~Present(j)

(***************************************************************************)
(* C2.  Version bounds are inclusive: with Options.ApiVersion = V, a field *)
(* with since = S that satisfies every other rule is present iff V >= S,   *)
(* and a field with until = U is present iff V <= U.                       *)
(***************************************************************************)
C2_VersionBoundsInclusive ==
  (ReturnedMapping /\ BuiltInFilter /\ ~opts.ApiVersion.nil) =>
    \A i \in 1..Len(TopFields) :
      LET f == TopFields[i]
      IN (Candidate(i) /\ GroupRule(f)) =>
           /\ (f.since # <<>> /\ UntilRule(f)) =>
                (Present(i) <=>
                   AtLeast(opts.ApiVersion.seg, NewVersion(f.since).v.seg))
           /\ (f.until # <<>> /\ SinceRule(f)) =>
                (Present(i) <=>
                   AtLeast(NewVersion(f.until).v.seg, opts.ApiVersion.seg))

\* A call at version 2.0.0 that keeps a field with since "2" and a field
\* with until "2", and drops a field with since "2.1".
C2_Witness ==
  /\ ReturnedMapping /\ BuiltInFilter /\ opts.ApiVersion = Version(2, 0, 0)
  /\ \E i \in 1..Len(TopFields) :
       /\ TopFields[i].since = <<2>> /\ TopFields[i].until = <<>>
       /\ Candidate(i) /\ Present(i)
  /\ \E j \in 1..Len(TopFields) :
       /\ TopFields[j].until = <<2>> /\ TopFields[j].since = <<>>
       /\ Candidate(j) /\ Present(j)
  /\ \E k \in 1..Len(TopFields) :
       /\ TopFields[k].since = <<2, 1>> /\ TopFields[k].until = <<>>
       /\ Candidate(k) /\ ~Present(k)

(***************************************************************************)
(* C3.  Group and version filtering combine conjunctively: with active     *)
(* groups and a version, a field is present iff it passes the group rule   *)
(* and the version rule.  For the User model {Username group api, Email    *)
(* group personal, Roles group api since 2}: groups [api] at version 1     *)
(* yield only username, groups [api] at version 2 add roles, groups        *)
(* [api, personal] at version 2 yield all three.                           *)
(***************************************************************************)
C3_GroupsAndVersionConjunctive ==
  (ReturnedMapping /\ BuiltInFilter /\ Len(opts.Groups) > 0
     /\ ~opts.ApiVersion.nil) =>
    /\ \A i \in 1..Len(TopFields) :
         LET f == TopFields[i]
         IN (Candidate(i) /\ (DeclaresGroups(f) \/ ~HasInheritedGroups(f)))
              => (Present(i) <=> (GroupRule(f) /\ VersionRule(f)))
    /\ (Deref(data) = Alice /\ opts.Groups = <<"api">>
          /\ opts.ApiVersion = Version(1, 0, 0))
         => result.val.m = [k \in {"username"} |-> GoStr("alice")]
    /\ (Deref(data) = Alice /\ opts.Groups = <<"api">>
          /\ opts.ApiVersion = Version(2, 0, 0))
         => /\ OutKeys = {"username", "roles"}
            /\ result.val.m["username"] = GoStr("alice")
            /\ result.val.m["roles"].elems = <<GoStr("user"), GoStr("admin")>>
    /\ (Deref(data) = Alice /\ opts.Groups = <<"api", "personal">>
          /\ opts.ApiVersion = Version(2, 0, 0))
         => /\ OutKeys = {"username", "email", "roles"}
            /\ result.val.m["email"] = GoStr("alice@example.org")

\* The first call of the scenario: Roles excluded by its version although
\* its group is active, Email excluded by its group.
C3_Witness ==
  /\ ReturnedMapping /\ BuiltInFilter /\ data = Alice
  /\ opts.Groups = <<"api">> /\ opts.ApiVersion = Version(1, 0, 0)
  /\ OutKeys = {"username"}

(***************************************************************************)
(* C4.  With an empty active group set and no version, the output mapping  *)
(* of a struct contains exactly the fields that have no never-emit marker  *)
(* and do not fail the omit-if-empty check, each keyed by its declared     *)
(* output key or, when none is declared, by the field's own name; the      *)
(* groups a field declares play no role.                                   *)
(***************************************************************************)
NoPolicy == BuiltInFilter /\ Len(opts.Groups) = 0 /\ opts.ApiVersion.nil

RECURSIVE DashFree(_)
DashFree(v) ==
  CASE v.kind = "map" ->
         /\ "-" \notin DOMAIN v.m
         /\ \A k \in DOMAIN v.m : DashFree(v.m[k])
    [] v.kind = "slice" -> \A i \in 1..Len(v.elems) : DashFree(v.elems[i])
    [] OTHER -> TRUE

\* No other field of the struct writes the name of field i as a key.
NameUnused(s, i) ==
  \A j \in (1..Len(s.fields)) \ {i} :
    s.fields[i].Name \notin
      (IF IsComposed(s.fields[j])
       THEN {JsonKey(s.fields[j])} \cup KeysOf(Deref(s.fields[j].val))
       ELSE {JsonKey(s.fields[j])})

C5_NeverEmitAbsent ==
  (result.status # "none") =>
    /\ \A k \in 1..Len(log) : ~HasNeverEmit(log[k].field)
    /\ (result.status = "ok") => DashFree(result.val)
    /\ ReturnedMapping =>
         \A i \in 1..Len(TopFields) :
           (HasNeverEmit(TopFields[i]) /\ NameUnused(Deref(data), i))
             => TopFields[i].Name \notin OutKeys

\* A caller's filter that includes every field, on a struct with an
\* exported never-emit field that declares groups: the filter has been
\* called for other fields and the mapping is returned.
C5_Witness ==
  /\ ReturnedMapping
  /\ opts.FieldFilter = CustomFilter("allowAll")
  /\ Len(log) > 0
  /\ \E i \in 1..Len(TopFields) :
       /\ HasNeverEmit(TopFields[i])
       /\ TopFields[i].Exported
       /\ TopFields[i].groups = <<"api">>

(***************************************************************************)
(* C6.  When Options.FieldFilter is supplied by the caller it alone        *)
(* decides inclusion: a plain exported field that is not never-emit and    *)
(* not omitted as empty is present iff the predicate returns true for it;  *)
(* Groups, ApiVersion and IncludeEmptyTag have no effect on the outcome of *)
(* the call, and neither have the groups, since and until tags of the      *)
(* fields (for a predicate that does not read them itself).                *)
(***************************************************************************)
Outcome(r) == [val |-> r.val, status |-> r.status, err |-> r.err]

\* The options as the caller built them, before the call filled in the
\* default filter and the inheritance table.
CallerOptions ==
  [opts EXCEPT !.nestedGroupsMap = NilGroupsMap,
               !.FieldFilter = IF @.kind = "default" THEN NilFilter ELSE @]

\* The value v with the groups, since and until tags removed from every
\* field in it.
RECURSIVE WithoutPolicyTags(_)
WithoutPolicyTags(v) ==
  CASE v.kind = "struct" ->
         [v EXCEPT !.fields =
            [i \in 1..Len(v.fields) |->
               [v.fields[i] EXCEPT !.groups = NoTag, !.since = NoTag,
                                   !.until = NoTag,
                                   !.val = WithoutPolicyTags(@)]]]
    [] v.kind = "ptr" /\ ~v.nil ->
         [v EXCEPT !.elem = WithoutPolicyTags(@)]
    [] v.kind = "interface" /\ ~v.nil ->
         [v EXCEPT !.dyn = WithoutPolicyTags(@)]
    [] v.kind = "slice" ->
         [v EXCEPT !.elems = [i \in 1..Len(v.elems) |->
                                WithoutPolicyTags(v.elems[i])]]
    [] v.kind = "map" ->
         [v EXCEPT !.m = [k \in DOMAIN v.m |-> WithoutPolicyTags(v.m[k])]]
    [] OTHER -> v

C6_CustomFilterAlone ==
  (result.status # "none" /\ opts.FieldFilter.kind = "custom") =>
    /\ ReturnedMapping =>
         \A i \in 1..Len(TopFields) :
           Candidate(i) =>
             (Present(i) <=>
                CallerFilter(opts.FieldFilter.id, TopFields[i]).include)
    /\ \E rev \in BOOLEAN :
         result = Outcome(Marshal(
                    [o |-> MakeOptions(opts.FieldFilter, <<>>, NilVersion, FALSE),
                     log |-> <<>>, rev |-> rev], data))
    /\ \E rev \in BOOLEAN :
         [result EXCEPT !.val = WithoutPolicyTags(@)] =
           Outcome(Marshal([o |-> CallerOptions, log |-> <<>>, rev |-> rev],
                           WithoutPolicyTags(data)))

\* The filter of TestMarshal_CustomFieldFilter with groups that match no
\* field and a version below a since bound: a field that declares group
\* api is present, a field with the hidden tag is absent.
C6_Witness ==
  /\ ReturnedMapping
  /\ opts.FieldFilter = CustomFilter("hidden")
  /\ opts.Groups = <<"other">>
  /\ \E i \in 1..Len(TopFields) :
       /\ TopFields[i].groups = <<"api">> /\ ~TopFields[i].hidden
       /\ Candidate(i) /\ Present(i)
  /\ \E j \in 1..Len(TopFields) :
       /\ TopFields[j].hidden /\ Candidate(j) /\ ~Present(j)

(***************************************************************************)
(* C7.  Under the built-in filter with a non-empty active group set, a     *)
(* plain field that declares no groups and has no inherited groups is      *)
(* included iff Options.IncludeEmptyTag is true.                           *)
(***************************************************************************)
C7_UntaggedNeedsIncludeEmptyTag ==
  (ReturnedMapping /\ BuiltInFilter /\ Len(opts.Groups) > 0) =>
    \A i \in 1..Len(TopFields) :
      LET f == TopFields[i]
      IN (Candidate(i) /\ ~DeclaresGroups(f) /\ ~HasInheritedGroups(f)
            /\ VersionRule(f))
           => (Present(i) <=> opts.IncludeEmptyTag)

\* TestMarshal_GroupsValidGroupIncludeEmptyTag: with IncludeEmptyTag an
\* untagged field is present next to a field of an inactive group that is
\* absent.
C7_Witness ==
  /\ ReturnedMapping /\ BuiltInFilter /\ opts.Groups = <<"api">>
  /\ opts.IncludeEmptyTag
  /\ \E i \in 1..Len(TopFields) :
       /\ ~DeclaresGroups(TopFields[i]) /\ ~HasInheritedGroups(TopFields[i])
       /\ Candidate(i) /\ Present(i)
  /\ \E j \in 1..Len(TopFields) :
       /\ TopFields[j].groups = <<"personal">>
       /\ Candidate(j) /\ ~Present(j)

(***************************************************************************)
(* C8.  A field marked omitempty whose value is the empty value of its     *)
(* type is absent from the output under every policy, and the filter is    *)
(* never called on it; on a field whose value is not empty the option      *)
(* changes nothing: the call returns what it returns for the same struct   *)
(* without the option on that field.                                       *)
(***************************************************************************)
\* The json tag without its omitempty option.
RECURSIVE StripOmitEmpty(_, _)
StripOmitEmpty(tag, i) ==
  IF i > Len(tag) THEN <<>>
  ELSE IF tag[i] = Comma /\ i < Len(tag) /\ tag[i + 1] = "omitempty"
  THEN StripOmitEmpty(tag, i + 2)
  ELSE <<tag[i]>> \o StripOmitEmpty(tag, i + 1)

\* The struct s with omitempty removed from its fields of non-empty value.
WithoutOmitEmpty(s) ==
  [s EXCEPT !.fields =
     [i \in 1..Len(s.fields) |->
        IF ~isEmptyValue(s.fields[i].val)
        THEN [s.fields[i] EXCEPT !.json = StripOmitEmpty(@, 1)]
        ELSE s.fields[i]]]

C8_OmitEmpty ==
  (result.status # "none") =>
    /\ \A k \in 1..Len(log) : ~OmittedAsEmpty(log[k].field)
    /\ ReturnedMapping =>
         \A i \in 1..Len(TopFields) :
           (OmittedAsEmpty(TopFields[i]) /\ SoleWriter(Deref(data), i))
             => ~Present(i)
    /\ (data.kind = "struct") =>
         \E rev \in BOOLEAN :
           result = Outcome(Marshal([o |-> CallerOptions, log |-> <<>>,
                                     rev |-> rev], WithoutOmitEmpty(data)))

\* A caller's filter that includes every field, a struct with an omitempty
\* field of empty value, absent, and one of non-empty value, present.
C8_Witness ==
  /\ ReturnedMapping /\ data.kind = "struct"
  /\ opts.FieldFilter = CustomFilter("allowAll")
  /\ \E i \in 1..Len(TopFields) :
       /\ OmittedAsEmpty(TopFields[i]) /\ TopFields[i].Exported
       /\ SoleWriter(data, i) /\ ~Present(i)
  /\ \E j \in 1..Len(TopFields) :
       /\ Contains(parseTag(TopFields[j].json).opts, "omitempty")
       /\ ~isEmptyValue(TopFields[j].val)
       /\ Candidate(j) /\ Present(j)

(***************************************************************************)
(* C9.  Marshal of a nil input or of a nil pointer returns a null result   *)
(* and no error without traversing anything: the field filter is not       *)
(* consulted and the options are left as the caller built them.            *)
(***************************************************************************)
C9_NilInput ==
  (result.status # "none"
     /\ (data.kind = "invalid" \/ (data.kind = "ptr" /\ data.nil))) =>
    /\ result.status = "ok" /\ result.err = "nil"
    /\ result.val = data
    /\ IsNil(result.val) \/ result.val.kind = "invalid"
    /\ log = <<>>
    /\ opts = CallerOptions

\* Marshal of a nil pointer under a policy with groups and a version.
C9_Witness ==
  /\ result.status = "ok" /\ data = NilPtr
  /\ Len(opts.Groups) > 0 /\ ~opts.ApiVersion.nil

(***************************************************************************)
(* C10.  Marshal of a slice returns a list of the same length and order    *)
(* whose i-th element is the projection of the i-th input element under    *)
(* the same options; an empty non-nil slice yields an empty non-nil list,  *)
(* a nil slice a null result.                                              *)
(***************************************************************************)
PlainSlice(v) == v.kind = "slice" /\ v.hook = "none" /\ ~v.text

\* The outcome of projecting element i of the slice v, the options being
\* those left by the projection of the elements before it.
RECURSIVE ElemResult(_, _, _)
ElemResult(ctx, v, i) ==
  marshalValue(IF i = 1 THEN ctx ELSE ElemResult(ctx, v, i - 1).ctx,
               v.elems[i])

C10_SliceProjection ==
  (result.status # "none" /\ PlainSlice(data)) =>
    IF data.nil
    THEN result.status = "ok" /\ result.val = data /\ IsNil(result.val)
    ELSE /\ (Len(data.elems) = 0) =>
              /\ result.status = "ok"
              /\ result.val = Slice(DynSliceType, <<>>)
              /\ ~IsNil(result.val)
         /\ (result.status = "ok") =>
              /\ result.val.kind = "slice" /\ ~result.val.nil
              /\ Len(result.val.elems) = Len(data.elems)
              /\ \E rev \in BOOLEAN :
                   \A i \in 1..Len(data.elems) :
                     LET r == ElemResult([o |-> InitOptions(CallerOptions),
                                          log |-> <<>>, rev |-> rev], data, i)
                     IN r.status = "ok" /\ result.val.elems[i] = r.val

\* A slice of two different elements whose projections differ, so that the
\* order shows in the result.
C10_Witness ==
  /\ result.status = "ok" /\ PlainSlice(data) /\ ~data.nil
  /\ Len(data.elems) = 2
  /\ Len(result.val.elems) = 2
  /\ result.val.elems[1] # result.val.elems[2]
  /\ Len(opts.Groups) > 0

(***************************************************************************)
(* C11.  Marshal of a non-nil map whose key kind is not string fails with  *)
(* the invalid-type error naming the key kind and returns no output,       *)
(* whatever the number of entries of the map; a map whose key kind is      *)
(* string (a named string type included) is not refused.                   *)
(***************************************************************************)
PlainMap(v) == v.kind = "map" /\ v.hook = "none" /\ ~v.text /\ ~v.nil

C11_NonStringKeyFails ==
  (result.status # "none" /\ PlainMap(data)) =>
    IF data.keyKind # "string"
    THEN /\ result.status = "err"
         /\ result.err = ErrInvalidType(data.keyKind)
         /\ result.val = NilValue
    ELSE result.err # ErrInvalidType(data.keyKind)

(***************************************************************************)
(* C12.  Marshal of a non-nil string-keyed map returns a mapping with      *)
(* exactly the keys of the input, each value being the projection of the   *)
(* input value under the same options; an empty non-nil map yields an      *)
(* empty non-nil mapping, and as the value of an included field it is      *)
(* present under the field's key.                                          *)
(***************************************************************************)
\* The outcome of projecting the value of the i-th key visited, the options
\* being those left by the projection of the values visited before.
RECURSIVE MapValueResult(_, _, _, _)
MapValueResult(ctx, v, mapKeys, i) ==
  marshalValue(IF i = 1 THEN ctx
               ELSE MapValueResult(ctx, v, mapKeys, i - 1).ctx,
               v.m[mapKeys[i]])

FieldKeys(f) ==
  IF IsComposed(f) THEN {JsonKey(f)} \cup KeysOf(Deref(f.val))
  ELSE {JsonKey(f)}

\* The keys the fields declared after field i can write.
LaterKeys(s, i) ==
  UNION {FieldKeys(s.fields[j]) : j \in (i + 1)..Len(s.fields)}

\* An exported embedded struct without an output key, a Marshaller or a
\* text encoding of its own.
FlattenedField(f) ==
  /\ IsComposed(f) /\ f.Exported
  /\ parseTag(f.json).name = ""
  /\ Deref(f.val).hook = "none" /\ ~Deref(f.val).text

\* The filter was called on the field and included it.
Included(f) ==
  \E k \in 1..Len(log) : log[k].field = f /\ log[k].ret.include

\* The options as the fields before field i of the input leave them.
CtxBefore(rev, i) ==
  MarshalFields([o |-> InitOptions(CallerOptions), log |-> <<>>,
                 rev |-> rev], Deref(data), 1, i - 1, <<>>).ctx

\* The projection of the struct embedded as field i of the input.
ChildrenProjection(rev, i) ==
  LET f == TopFields[i]
  IN marshalValue([CtxBefore(rev, i) EXCEPT
                     !.o = IF f.TypeKind = "struct"
                           THEN RegisterNested(@, f) ELSE @],
                  Deref(f.val))

\* The entries field i of the input writes, for the fields whose entries
\* can be told without running the loop: a flattened struct writes its
\* projection, an included string field its value under its key.
Writes(rev, i) ==
  LET f == TopFields[i]
  IN IF FlattenedField(f) THEN ChildrenProjection(rev, i).val.m
     ELSE IF /\ PlainExported(f) /\ ~HasNeverEmit(f) /\ ~OmittedAsEmpty(f)
             /\ f.val.kind = "string" /\ f.val.hook = "none" /\ ~f.val.text
             /\ Included(f)
     THEN [k \in {JsonKey(f)} |-> f.val]
     ELSE <<>>

C13_FlatteningLastWins ==
  ReturnedMapping =>
    \E rev \in BOOLEAN :
      \A i \in 1..Len(TopFields) :
        /\ FlattenedField(TopFields[i]) =>
             /\ IsDynMap(ChildrenProjection(rev, i).val)
             /\ NameUnused(Deref(data), i) => TopFields[i].Name \notin OutKeys
        /\ \A k \in DOMAIN Writes(rev, i) :
             /\ k \in OutKeys
             /\ (k \notin LaterKeys(Deref(data), i))
                  => result.val.m[k] = Writes(rev, i)[k]

\* All the collisions at once: the later plain field wins over the earlier,
\* the plain field declared after an embedded struct wins over its child,
\* the child of an embedded struct wins over the plain field before it.
C13_Witness ==
  /\ ReturnedMapping /\ data = CollisionModel
  /\ opts.Groups = <<"api", "personal">>
  /\ OutKeys = {"foo", "dup", "qux"}
  /\ result.val.m["dup"] = GoStr("second")
  /\ result.val.m["foo"] = GoStr("late")
  /\ result.val.m["qux"] = GoStr("Big")

(***************************************************************************)
(* C14.  An embedded struct field that declares an output key of its own   *)
(* is not flattened: its projected children are nested under that key in   *)
(* the parent mapping and none of them is a direct key of the parent.      *)
(***************************************************************************)
\* An exported embedded struct with an output key of its own and without a
\* Marshaller or a text encoding.
KeyedEmbedded(f) ==
  /\ IsComposed(f) /\ f.Exported
  /\ parseTag(f.json).name # "" /\ ~HasNeverEmit(f) /\ ~OmittedAsEmpty(f)
  /\ Deref(f.val).hook = "none" /\ ~Deref(f.val).text

\* The keys the fields of s other than field i can write.
OtherKeys(s, i) ==
  UNION {FieldKeys(s.fields[j]) : j \in (1..Len(s.fields)) \ {i}}

C14_KeyedEmbeddedNested ==
  ReturnedMapping =>
    \E rev \in BOOLEAN :
      \A i \in 1..Len(TopFields) :
        KeyedEmbedded(TopFields[i]) =>
          LET f == TopFields[i]
              r == ChildrenProjection(rev, i)
          IN /\ JsonKey(f) \in OutKeys
             /\ (JsonKey(f) \notin OtherKeys(Deref(data), i))
                  => result.val.m[JsonKey(f)] = r.val
             /\ \A k \in DOMAIN r.val.m :
                  (k \notin OtherKeys(Deref(data), i)) => k \notin OutKeys

(***************************************************************************)
(* C15.  Group inheritance: with a non-empty active group set, a child of  *)
(* an embedded struct field that declares no groups of its own is filtered *)
(* by the groups declared on the embedded field, a child that declares     *)
(* groups by its own groups only, whether the struct is embedded by value  *)
(* or through a pointer.                                                   *)
(***************************************************************************)
\* One of the comma-separated groups of the tag g is an active group.
TagMatches(g) ==
  \E a \in 1..Len(Split(g)), b \in 1..Len(opts.Groups) :
    Split(g)[a] = opts.Groups[b]

\* Child c of the struct embedded as field i of the input is a plain
\* exported field whose presence can be read off the parent mapping.
ChildCandidate(i, c) ==
  LET s == Deref(TopFields[i].val)
      f == s.fields[c]
  IN /\ PlainExported(f) /\ ~HasNeverEmit(f) /\ ~OmittedAsEmpty(f)
     /\ VersionRule(f)
     /\ SoleWriter(s, c)
     /\ JsonKey(f) \notin OtherKeys(Deref(data), i)

\* The rule of the claim for the child c of the embedded field i.
InheritanceRule(i, c) ==
  LET f == Deref(TopFields[i].val).fields[c]
  IN (JsonKey(f) \in OutKeys) <=>
       IF DeclaresGroups(f) THEN TagMatches(f.groups)
       ELSE TagMatches(TopFields[i].groups)

C15_GroupInheritance ==
  (ReturnedMapping /\ BuiltInFilter /\ Len(opts.Groups) > 0) =>
    \A i \in 1..Len(TopFields) :
      (FlattenedField(TopFields[i]) /\ DeclaresGroups(TopFields[i])) =>
        \A c \in 1..Len(Deref(TopFields[i].val).fields) :
          ChildCandidate(i, c) => InheritanceRule(i, c)

(***************************************************************************)
(* C16.  Whenever a value whose type implements Marshaller is projected,   *)
(* at top level or nested in a field, a slice or a map, the result (value  *)
(* and error) is what the hook returns for the same Options; the hook      *)
(* takes precedence over the pass-through of values with a text encoding   *)
(* and over the handling of structs, slices and maps.                      *)
(***************************************************************************)
Hooked(v) == v.kind # "invalid" /\ v.kind # "interface" /\ v.hook # "none"

\* The context of the first projection of a call.
FirstCtx(rev) ==
  [o |-> InitOptions(CallerOptions), log |-> <<>>, rev |-> rev]

Opaque(v) == v.kind # "invalid" /\ v.kind # "interface" /\ v.text
               /\ v.hook = "none"

\* The output value w is the input value v, or the value v points to.
Unchanged(v, w) == w = v \/ (v.kind = "ptr" /\ w = Elem(v))

C17_TextEncodedPassThrough ==
  /\ ReturnedMapping =>
       \A i \in 1..Len(TopFields) :
         (Candidate(i) /\ Opaque(TopFields[i].val)
            /\ Included(TopFields[i])) =>
           /\ Present(i)
           /\ Unchanged(TopFields[i].val,
                        result.val.m[JsonKey(TopFields[i])])
  /\ (result.status = "ok" /\ PlainSlice(data) /\ ~data.nil) =>
       \A i \in 1..Len(data.elems) :
         Opaque(data.elems[i]) =>
           Unchanged(data.elems[i], result.val.elems[i])
  /\ (result.status = "ok" /\ PlainMap(data) /\ data.keyKind = "string") =>
       \A k \in DOMAIN data.m :
         Opaque(data.m[k]) => Unchanged(data.m[k], result.val.m[k])

(***************************************************************************)
(* C18.  Error propagation: when the field filter, a Marshaller or a       *)
(* nested projection returns an error, Marshal returns a nil result with   *)
(* that error, visits no further field or element, and the error is the    *)
(* first one met in the depth-first traversal in declaration order; no     *)
(* error is passed over.                                                   *)
(***************************************************************************)
\* The value Marshal hands to marshalValue for a field.
FieldValue(f) == IF f.val.kind = "ptr" THEN Elem(f.val) ELSE f.val

LastCall == log[Len(log)]

C18_FirstErrorPropagates ==
  /\ (result.status = "err") =>
       /\ result.val = NilValue
       /\ result.err # "nil"
       /\ \A k \in 1..(Len(log) - 1) :
            log[k].ret.status = "ok"
       /\ (Len(log) > 0 /\ LastCall.ret.status # "ok") =>
            result.err = LastCall.ret.err
       /\ (Len(log) > 0 /\ LastCall.ret.status = "ok") =>
            /\ LastCall.ret.include
            /\ \E rev \in BOOLEAN :
                 LET r == marshalValue([o |-> opts, log |-> <<>>, rev |-> rev],
                                       FieldValue(LastCall.field))
                 IN r.status = "err" /\ r.err = result.err
  /\ (result.status = "ok") =>
       /\ \A k \in 1..Len(log) : log[k].ret.status = "ok"
       /\ \A k \in 1..Len(log) :
            (log[k].ret.include /\ Hooked(FieldValue(log[k].field))) =>
              FieldValue(log[k].field).hook \in {"self", "fixed"}

\* A slice whose second element has a field with a malformed bound: the
\* call fails on that field, after the fields of the first element and
\* before any field of the third.
C18_Witness ==
  /\ result.status = "err"
  /\ data = Slice("[]T", <<Alice, BadVersionModel, Bob>>)
  /\ result.err = ErrMalformedVersion
  /\ Len(log) > 1
  /\ LastCall.field.Name = "BadSince"
  /\ log[1].field.val = GoStr("alice")

(***************************************************************************)
(* C19.  Under the built-in filter, if a field of a traversed struct       *)
(* declares a since or until bound that cannot be parsed as a version,     *)
(* Marshal fails with an error and returns no output, regardless of which  *)
(* groups are active.                                                      *)
(***************************************************************************)
SinceMalformed(f) == f.since # <<>> /\ ~NewVersion(f.since).ok

UntilMalformed(f) == f.until # <<>> /\ ~NewVersion(f.until).ok

\* The claim as stated, for the calls made with a version set: a malformed
\* bound anywhere in the struct fails the call.
C19_MalformedAlwaysFails ==
  (StructInput /\ BuiltInFilter /\ ~opts.ApiVersion.nil) =>
    \A i \in 1..Len(TopFields) :
      (SinceMalformed(TopFields[i]) \/ UntilMalformed(TopFields[i])) =>
        result.status = "err" /\ result.val = NilValue

\* The filter parses a bound of the field: the field is handed to the
\* filter, passes the group rule, and either its since bound is malformed
\* or its since bound lets it through and its until bound is malformed.
ParsesMalformed(f) ==
  /\ PlainExported(f) /\ ~HasNeverEmit(f) /\ ~OmittedAsEmpty(f)
  /\ GroupRule(f)
  /\ SinceMalformed(f) \/ (UntilMalformed(f) /\ SinceRule(f))

\* A field that can only be shown, hidden or fail on a malformed bound.
FailsOnlyMalformed(f) ==
  /\ f.val.kind \in {"string", "int", "bool"} /\ f.val.hook = "none"
  /\ \/ f.since = <<>> /\ f.until = <<>>
     \/ SinceMalformed(f)
     \/ f.since = <<>> /\ UntilMalformed(f)

\* A malformed bound fails the call when the filter comes to parse it.
C19_MalformedFailsWhenParsed ==
  (StructInput /\ BuiltInFilter) =>
    \A i \in 1..Len(TopFields) :
      ParsesMalformed(TopFields[i]) =>
        /\ result.status # "ok"
        /\ result.val = NilValue
        /\ (\A j \in 1..(i - 1) : FailsOnlyMalformed(TopFields[j])) =>
             /\ result.status = "err"
             /\ result.err = ErrMalformedVersion

\* IncludeEmptyTag with groups that hide the field with the malformed since
\* bound: the call fails on the untagged field with the malformed until
\* bound.
C19_Witness ==
  /\ StructInput /\ BuiltInFilter /\ data = BadVersionModel
  /\ opts.Groups = <<"api">> /\ opts.IncludeEmptyTag
  /\ result.status = "err" /\ result.err = ErrMalformedVersion
  /\ LastCall.field.Name = "BadUntil"

(***************************************************************************)
(* C20.  Version filtering runs only if the options carry a version: when  *)
(* Options.ApiVersion is not set, Marshal of a struct with fields that     *)
(* declare since or until bounds completes normally (no error, no crash)   *)
(* and no field is excluded on version grounds.                            *)
(***************************************************************************)
\* A field that cannot make the call fail but through the version rule.
WellFormedScalar(f) ==
  /\ f.val.kind \in {"string", "int", "bool"} /\ f.val.hook = "none"
  /\ ~SinceMalformed(f) /\ ~UntilMalformed(f)

C20_NoVersionNoVersionFilter ==
  (StructInput /\ BuiltInFilter /\ opts.ApiVersion.nil
     /\ \A i \in 1..Len(TopFields) : WellFormedScalar(TopFields[i])) =>
    /\ result.status = "ok"
    /\ \A i \in 1..Len(TopFields) :
         (Candidate(i) /\ GroupRule(TopFields[i])) => Present(i)

(***************************************************************************)
(* C21.  Marshal called at the top level with a value that is not a struct *)
(* nor a pointer to one and does not implement the Marshaller hook (for    *)
(* example the string "test") returns a MarshalInvalidTypeError whose      *)
(* message is "marshaller: Unable to marshal type <kind>. Struct           *)
(* required.", <kind> being the kind of the input.                         *)
(***************************************************************************)
\* The input of the call is a scalar without hook and without text encoding.
ScalarInput ==
  /\ result.status # "none"
  /\ data.kind \in {"string", "int", "bool"}
  /\ data.hook = "none" /\ ~data.text

C21_ScalarInputInvalidType ==
  ScalarInput =>
    /\ result.status = "err"
    /\ result.err = ErrInvalidType(data.kind)
    /\ result.val = NilValue

(***************************************************************************)
(* C22.  For an included field whose json tag carries the option "string"  *)
(* and whose value is a boolean, a number or a string, the output value is *)
(* the textual representation of the value, a string; on a value of any    *)
(* other kind the option has no effect: the call returns what it returns   *)
(* for the same struct without the option on that field.                   *)
(***************************************************************************)
HasStringOption(f) == Contains(parseTag(f.json).opts, "string")

\* A boolean, a number or a string without a hook of its own.
PlainScalar(v) == v.kind \in {"bool", "int", "string"} /\ v.hook = "none"

\* The text of a scalar: the string itself, the decimal digits, true/false.
TextOf(v) ==
  CASE v.kind = "string" -> v.s
    [] v.kind = "int" -> ToString(v.n)
    [] v.kind = "bool" -> IF v.b THEN "true" ELSE "false"

\* The json tag without its "string" option.
RECURSIVE StripStringOption(_, _)
StripStringOption(tag, i) ==
  IF i > Len(tag) THEN <<>>
  ELSE IF tag[i] = Comma /\ i < Len(tag) /\ tag[i + 1] = "string"
  THEN StripStringOption(tag, i + 2)
  ELSE <<tag[i]>> \o StripStringOption(tag, i + 1)

\* The struct s with the "string" option removed from its fields whose
\* value is not a boolean, a number or a string.
WithoutStringOption(s) ==
  [s EXCEPT !.fields =
     [i \in 1..Len(s.fields) |->
        IF s.fields[i].val.kind \notin {"bool", "int", "string"}
        THEN [s.fields[i] EXCEPT !.json = StripStringOption(@, 1)]
        ELSE s.fields[i]]]

C22_StringOption ==
  /\ ReturnedMapping =>
       \A i \in 1..Len(TopFields) :
         (Candidate(i) /\ Present(i) /\ HasStringOption(TopFields[i])
            /\ PlainScalar(TopFields[i].val)) =>
           result.val.m[JsonKey(TopFields[i])] = GoStr(TextOf(TopFields[i].val))
  /\ (result.status # "none" /\ data.kind = "struct") =>
       \E rev \in BOOLEAN :
         result = Outcome(Marshal([o |-> CallerOptions, log |-> <<>>,
                                   rev |-> rev], WithoutStringOption(data)))

\* A number and a boolean with the option come out as "7" and "true"; a
\* pointer and a slice with the option come out as without it.
C22_Witness ==
  /\ ReturnedMapping /\ data = QuotedModel
  /\ opts.Groups = <<"api", "personal">>
  /\ result.val.m["count"] = GoStr("7")
  /\ result.val.m["flag"] = GoStr("true")
  /\ result.val.m["p_count"] = GoInt(3)
  /\ result.val.m["tags"] = Slice(DynSliceType, <<GoStr("a")>>)
  /\ result.val.m["plain"] = GoInt(7)

IsCall == result.status = "none" /\ result'.status # "none"

C24_PublicFieldsKept ==
  [][IsCall =>
       /\ opts'.FieldFilter = opts.FieldFilter
       /\ opts'.Groups = opts.Groups
       /\ opts'.ApiVersion = opts.ApiVersion
       /\ opts'.IncludeEmptyTag = opts.IncludeEmptyTag]_vars

(***************************************************************************)
(* C25.  A fixed-length array is projected like a slice: Marshal of an     *)
(* array (given directly or as the value of a field) returns a list with   *)
(* the projection of each element under the same policy, so for an array   *)
(* of structs no field excluded by the policy appears in the output.       *)
(***************************************************************************)
\* The value v with its arrays (v itself, or the values of its fields)
\* replaced by slices of the same elements.
ArrayAsSlice(v) == IF v.kind = "array" THEN Slice("[]T", v.elems) ELSE v

ArraysAsSlices(v) ==
  IF v.kind = "struct"
  THEN [v EXCEPT !.fields =
          [i \in 1..Len(v.fields) |->
             [v.fields[i] EXCEPT !.val = ArrayAsSlice(@),
                                 !.TypeKind = ArrayAsSlice(v.fields[i].val).kind]]]
  ELSE ArrayAsSlice(v)

\* The input is an array or a struct with an included field holding one.
HasArray ==
  \/ data.kind = "array"
  \/ /\ data.kind = "struct"
     /\ \E i \in 1..Len(data.fields) :
          data.fields[i].val.kind = "array" /\ Included(data.fields[i])

C25_ArrayLikeSlice ==
  (result.status = "ok" /\ HasArray) =>
    \E rev \in BOOLEAN :
      result.val = Marshal([o |-> CallerOptions, log |-> <<>>, rev |-> rev],
                           ArraysAsSlices(data)).val

(***************************************************************************)
(* C26.  Inherited groups apply only to the children of the composed field *)
(* that declared them: an untagged field with the same name in another     *)
(* struct projected in the same call is treated as having no groups, so    *)
(* under non-empty Options.Groups it is in that struct's mapping iff       *)
(* IncludeEmptyTag is set.                                                 *)
(***************************************************************************)
\* Field j of the input is a plain (not embedded) field holding a struct
\* that the call has projected into a mapping of its own.
NestedStructField(j) ==
  LET f == TopFields[j]
  IN /\ ~f.Anonymous /\ f.val.kind = "struct"
     /\ f.val.hook = "none" /\ ~f.val.text
     /\ Candidate(j) /\ Present(j)

\* Child c of the struct held by field j declares no groups and no version
\* bounds and its presence can be read off that struct's mapping.
UntaggedChild(j, c) ==
  LET s == TopFields[j].val
      f == s.fields[c]
  IN /\ PlainExported(f) /\ ~HasNeverEmit(f) /\ ~OmittedAsEmpty(f)
     /\ ~DeclaresGroups(f) /\ f.since = <<>> /\ f.until = <<>>
     /\ SoleWriter(s, c)

C26_InheritedGroupsScoped ==
  (ReturnedMapping /\ BuiltInFilter /\ Len(opts.Groups) > 0) =>
    \A j \in 1..Len(TopFields) :
      NestedStructField(j) =>
        \A c \in 1..Len(TopFields[j].val.fields) :
          UntaggedChild(j, c) =>
            (JsonKey(TopFields[j].val.fields[c])
               \in DOMAIN result.val.m[JsonKey(TopFields[j])].m
             <=> opts.IncludeEmptyTag)

(***************************************************************************)
(* C27.  With non-empty Options.Groups and IncludeEmptyTag set, an         *)
(* untagged child of an embedded-by-value field that itself declares no    *)
(* groups resolves to an empty group set and is therefore included in the  *)
(* parent mapping.                                                         *)
(***************************************************************************)
\* Field i of the input is a struct embedded by value, flattened into the
\* parent mapping, that declares no groups.
UntaggedByValue(i) ==
  /\ FlattenedField(TopFields[i])
  /\ TopFields[i].TypeKind = "struct"
  /\ ~DeclaresGroups(TopFields[i])

C27_UntaggedEmbeddedChildIncluded ==
  (ReturnedMapping /\ BuiltInFilter /\ Len(opts.Groups) > 0
     /\ opts.IncludeEmptyTag) =>
    \A i \in 1..Len(TopFields) :
      UntaggedByValue(i) =>
        \A c \in 1..Len(TopFields[i].val.fields) :
          (ChildCandidate(i, c)
             /\ ~DeclaresGroups(TopFields[i].val.fields[c])) =>
            JsonKey(TopFields[i].val.fields[c]) \in OutKeys

(***************************************************************************)
(* C28.  History independence: each call's result depends only on the      *)
(* value passed and on the public fields of its Options at the time of the *)
(* call.  On a reused Options object (the caller possibly changing Groups, *)
(* ApiVersion or IncludeEmptyTag between calls, earlier calls possibly     *)
(* having traversed composed fields) every call returns what a freshly     *)
(* built Options with the same public fields returns.                      *)
(***************************************************************************)
\* CallerOptions is the freshly built object: the fields the caller has set,
\* no filter installed by an earlier call, no inheritance table.
C28_HistoryIndependent ==
  (result.status # "none") =>
    \E rev \in BOOLEAN :
      result = Outcome(Marshal([o |-> CallerOptions, log |-> <<>>,
                                rev |-> rev], data))

(***************************************************************************)
(* C29.  When two top-level calls of Marshal run concurrently on one       *)
(* shared Options object, their writes to and reads of the inheritance     *)
(* table can interleave so that a field's inclusion in one call is decided *)
(* with the groups recorded by the other call, a result that neither       *)
(* sequential order of the two calls produces; when each concurrent call   *)
(* uses its own Options object, no interleaving changes either result.     *)
(***************************************************************************)
\* Every call has ended.
AllEnded == calls # <<>> /\ \A g \in DOMAIN calls : ~Running(g)

\* Two calls were given the same Options object.
SharedOptions == Len(calls) = 2 /\ calls[1].oid = calls[2].oid

\* What the call Marshal(o, d) returns when it runs alone.
Alone(o, d) == Outcome(Marshal([o |-> o, log |-> <<>>, rev |-> FALSE], d))

\* What the calls on dA and dB return when they run one after the other on
\* the object o, in either order.
InSequence(o, dA, dB) ==
  LET a1 == Marshal([o |-> o, log |-> <<>>, rev |-> FALSE], dA)
      b2 == Marshal([o |-> a1.ctx.o, log |-> <<>>, rev |-> FALSE], dB)
      b1 == Marshal([o |-> o, log |-> <<>>, rev |-> FALSE], dB)
      a2 == Marshal([o |-> b1.ctx.o, log |-> <<>>, rev |-> FALSE], dA)
  IN {<<Outcome(a1), Outcome(b2)>>, <<Outcome(a2), Outcome(b1)>>}

\* Both calls on a shared object have returned, with a pair of results that
\* no sequential order gives.
Anomaly ==
  /\ AllEnded /\ SharedOptions
  /\ \A g \in 1..2 : calls[g].ret.status # "panic"
  /\ <<calls[1].ret, calls[2].ret>>
       \notin InSequence(heap[1].o0, calls[1].input, calls[2].input)

\* With an object of its own a call returns what it returns alone, however
\* the steps interleave, and a pair of results that no sequential order
\* gives comes with a read of a table entry the other call has written, or
\* with the table one call has filled being replaced by the other.
C29_Interference ==
  /\ (AllEnded /\ ~SharedOptions) =>
       \A g \in DOMAIN calls :
         calls[g].ret = Alone(heap[calls[g].oid].o0, calls[g].input)
  /\ Anomaly =>
       \/ \E g \in 1..2 : calls[g].cross
       \/ heap[1].remade

\* UserInfo's ID, which inherits the active group api, is left out because
\* the filter has read the groups personal that the call on Staff recorded
\* for the name ID.
C29_Witness ==
  /\ Anomaly
  /\ calls[1].input = UserInfo /\ calls[2].input = Staff
  /\ heap[1].o0.Groups = <<"api">> /\ ~heap[1].o0.IncludeEmptyTag
  /\ calls[1].cross /\ ~heap[1].remade
  /\ calls[1].ret.status = "ok" /\ calls[2].ret.status = "ok"
  /\ "ID" \in DOMAIN Alone(heap[1].o0, UserInfo).val.m
  /\ "ID" \notin DOMAIN calls[1].ret.val.m

(***************************************************************************)
(* C30.  Marshal terminates (returns a result or an error) for every       *)
(* finite, acyclic input value, including values whose Marshaller hook is  *)
(* written as in the README, a hook on a struct type that calls            *)
(* Marshal(options, self): the hook and Marshal do not call each other     *)
(* without end.                                                            *)
(***************************************************************************)
\* One call is running alone.
OneCall == Len(calls) = 1

\* The call has returned a result or an error.
Returned == OneCall /\ calls[1].ret.status \in {"ok", "err"}

C30_Terminates == OneCall ~> Returned


\* The call has come to an end: it has returned, or it has crashed.
Ended == OneCall /\ calls[1].ret.status # "none"

\* Every call running alone comes to an end; the stack never holds more
\* frames than the input has levels.
EndsOrCrashes == OneCall ~> Ended

====
